---- MODULE Spec2Model ----
(***************************************************************************)
(* The minibatch / momentum training loop of the notebook "Deep Learning   *)
(* Convolution in Theano" (src/unnamed/part_000).                          *)
(*                                                                         *)
(* Tensors are modelled as short sequences of integers and tensor          *)
(* arithmetic as exact arithmetic.  The network itself (convolution,       *)
(* pooling, softmax) and its symbolic gradient are library code: they are  *)
(* represented by fixed deterministic functions of the batch rows and of   *)
(* the whole parameter set (RowGrad, RowCost, RowPrediction).  The L2 term *)
(* of the cost and of its gradient is modelled as written in the source.   *)
(* In the training cell a feature row is an integer tag; the loader's       *)
(* normalisation is a per-column affine map, so distinct rows stay         *)
(* distinct and the tag stands for the normalised row.  The data cells     *)
(* (loading, normalisation, split) are modelled with their pixel values    *)
(* in a specification of their own, SpecData.  Values that are not finite  *)
(* are one absorbing value of the arithmetic (NaN).                        *)
(*                                                                         *)
(* The training cell of the notebook "Deep Learning Convolution in         *)
(* TensorFlow" (src/unnamed/part_001, lines 497-525; the file holds the    *)
(* cell a second time at lines 994-1022) is modelled in a specification of *)
(* its own, SpecTF, over the same notebook names.                          *)
(***************************************************************************)
EXTENDS Integers, Sequences, FiniteSets, TLC

VARIABLES
    pc,             \* position in the notebook: cell / line about to run
    data,           \* the matrix read from the CSV file          (153, 165)
    X, Y,           \* normalised features and labels; later the
                    \* symbolic inputs of the network        (184, 309-310)
    Xtrain,         \* training feature rows                       (line 220)
    Ytrain,         \* training labels                             (line 221)
    Xtest,          \* holdout feature rows                        (line 222)
    Ytest,          \* holdout labels                              (line 223)
    Ytrain_ind,     \* indicator rows of the training labels       (line 224)
    Ytest_ind,      \* indicator rows of the holdout labels        (line 225)
    max_iter,       \* number of epochs                            (line 243)
    print_period,   \* evaluation period in batches                (line 244)
    lr, reg, mu,    \* learning rate, L2 coefficient, momentum     (246-248)
    N,              \* Xtrain.shape[0]                             (line 250)
    batch_sz,       \* minibatch size                              (line 251)
    W,              \* the eight shared parameter tensors          (311-318)
    dW,             \* the eight shared momentum accumulators      (321-328)
    LL,             \* metrics history                             (line 477)
    i, j,           \* loop counters                               (478, 480)
    Xbatch, Ybatch, \* current minibatch                           (481-482)
    cost_val, prediction_val, err,  \* last evaluation             (486-487)
    out,            \* lines printed                               (line 490)
    plotted,        \* what plt.plot was given                     (line 493)
    it_i, it_j,     \* next value of the two range iterators       (478, 480)
    calls,          \* log of the train / get_prediction calls made so far
    test_cost,      \* part_001: cost summed over the holdout chunks (511)
    k_test, it_k    \* part_001: the counter k of the chunk loop and the
                    \* next value of its range iterator              (513)

vars == << pc, data, X, Y, Xtrain, Ytrain, Xtest, Ytest, Ytrain_ind, Ytest_ind, max_iter,
           print_period, lr, reg, mu, N, batch_sz, W, dW, LL, i, j, Xbatch,
           Ybatch, cost_val, prediction_val, err, out, plotted, it_i, it_j,
           calls, test_cost, k_test, it_k >>

-----------------------------------------------------------------------------
(* Bounds of the model *)

MaxN == 5           \* rows of the loaded dataset: 1 .. MaxN
Holdout == 1        \* rows held out (1000 in the notebook, scaled down)
MaxBatch == 3       \* batch_sz ranges over -1 .. MaxBatch
MaxPeriod == 2      \* print_period ranges over 1 .. MaxPeriod
MaxIter == 2        \* max_iter ranges over 1 .. MaxIter

(* Program constants *)

K == 10             \* number of classes                           (line 255)
IndWidth == 10      \* columns of an indicator matrix              (line 70)

-----------------------------------------------------------------------------
(* Generic helpers *)

Min(a, b) == IF a < b THEN a ELSE b
Max(a, b) == IF a > b THEN a ELSE b
Abs(a) == IF a < 0 THEN -a ELSE a

Range(s) == { s[k] : k \in 1..Len(s) }

\* float32 has values that are not finite (nan, inf, -inf).  One value
\* outside the range the finite arithmetic of the model reaches stands for
\* them; an operation on a non-finite operand gives a non-finite result
\* (also 0 * nan and 0 * inf, which are nan).
NaN == -(1000 * 1000 * 1000)
FAdd(a, b) == IF a = NaN \/ b = NaN THEN NaN ELSE a + b
FMul(a, b) == IF a = NaN \/ b = NaN THEN NaN ELSE a * b

\* Python's int(a / b) for b # 0: true division, truncated toward zero.
IntDiv(a, b) ==
    IF (a >= 0) = (b > 0) THEN Abs(a) \div Abs(b) ELSE -(Abs(a) \div Abs(b))

\* A slice bound k of a sequence of length n, as Python resolves it.
PyBound(k, n) == IF k < 0 THEN Max(n + k, 0) ELSE Min(k, n)

\* Faulty variant of PySlice: the slice starts one row early.
PySlice_early(s, a, b) ==
    SubSeq(s, Max(PyBound(a, Len(s)), 1), PyBound(b, Len(s)))

\* s[a:b] (0-based, half-open, clamped to the sequence).
PySlice(s, a, b) == SubSeq(s, PyBound(a, Len(s)) + 1, PyBound(b, Len(s)))

\* Faulty variant of PySliceTo: the slice ends one row late.
PySliceTo_late(s, b) == SubSeq(s, 1, Min(PyBound(b, Len(s)) + 1, Len(s)))

\* Faulty variant of PySliceFrom: the slice starts one row early.
PySliceFrom_early(s, a) == SubSeq(s, Max(PyBound(a, Len(s)), 1), Len(s))

\* s[:b] and s[a:]
PySliceTo(s, b) == SubSeq(s, 1, PyBound(b, Len(s)))
PySliceFrom(s, a) == SubSeq(s, PyBound(a, Len(s)) + 1, Len(s))

-----------------------------------------------------------------------------
(* The dataset: data.as_matrix(), column 0 the label, the rest the pixels *)

\* Row k of the CSV file: << label, pixel tag >>.  Labels cycle through
\* 3, 9, 0; every row has its own tag.
CorpusRow(k) == << << 0, 3, 9 >>[(k % 3) + 1], 10 + k >>
Corpus(n) == [k \in 1..n |-> CorpusRow(k)]

LabelOfTag(x) == CorpusRow(x - 10)[1]

\* The same file with row s a sample on which the network saturates.
CorpusSaturating(n, s) ==
    [k \in 1..n |-> IF k = s THEN << CorpusRow(k)[1], -CorpusRow(k)[2] >>
                              ELSE CorpusRow(k)]

\* The permutations a shuffle is drawn from: the rotation by one row and the
\* exchange of the first two rows (together they generate every order).
Shuffles(n) ==
    { [k \in 1..n |-> (k % n) + 1],
      [k \in 1..n |-> IF n >= 2 /\ k <= 2 THEN 3 - k ELSE k] }

Permute(s, p) == [k \in 1..Len(s) |-> s[p[k]]]

\* Faulty variant of shuffle: only the first array is permuted.
shuffle_first_only(A, B, p) == << Permute(A, p), B >>

\* sklearn.utils.shuffle(X, Y): one permutation, applied to both arrays.
shuffle(A, B, p) == << Permute(A, p), Permute(B, p) >>

\* get_normalized_data: X = data[:, 1:] (normalised), Y = data[:, 0]
get_normalized_data(d) ==
    << [k \in 1..Len(d) |-> d[k][2]], [k \in 1..Len(d) |-> d[k][1]] >>

\* Faulty variant of y2indicator: the label is used as a column number
\* counted from 1.
y2indicator_from_one(y) ==
    [r \in 1..Len(y) |-> [c \in 1..IndWidth |-> IF c = y[r] THEN 1 ELSE 0]]

\* ind = np.zeros((N, 10)); ind[i, y[i]] = 1 for every i (columns counted
\* from 0 in the source, from 1 here)
y2indicator(y) ==
    [r \in 1..Len(y) |-> [c \in 1..IndWidth |-> IF c = y[r] + 1 THEN 1 ELSE 0]]

\* Faulty variant of error_rate: the samples predicted right are counted.
error_rate_of_hits(p, t) ==
    [wrong |-> Cardinality({k \in 1..Len(t) : p[k] = t[k]}), of |-> Len(t)]

error_rate(p, t) ==
    [wrong |-> Cardinality({k \in 1..Len(t) : p[k] # t[k]}), of |-> Len(t)]

-----------------------------------------------------------------------------
(* Parameters, cost and gradient *)

ParamSeq == << "W1", "b1", "W2", "b2", "W3", "b3", "W4", "b4" >>
ParamNames == Range(ParamSeq)
Ord(p) == [W1 |-> 1, b1 |-> 2, W2 |-> 3, b2 |-> 4,
           W3 |-> 5, b3 |-> 6, W4 |-> 7, b4 |-> 8][p]
IsWeight(p) == p \in {"W1", "W2", "W3", "W4"}

\* Number of entries of each tensor: weights have two, biases one.
Size(p) == IF IsWeight(p) THEN 2 ELSE 1

\* init_filter / np.random.randn for the weights, np.zeros for the biases
W_init == [p \in ParamNames |->
             IF IsWeight(p) THEN << 1, -1 >> ELSE [e \in 1..Size(p) |-> 0]]
\* Faulty variant of dW_init: the accumulators start as copies of the
\* parameters.
dW_init_copied == [p \in ParamNames |-> W_init[p]]

dW_init == [p \in ParamNames |-> [e \in 1..Len(W_init[p]) |-> 0]]

\* f[1] + ... + f[n]
RECURSIVE SumTo(_, _)
SumTo(f, n) ==
    IF n <= 0 THEN 0 ELSE LET rest == SumTo(f, n - 1) IN FAdd(f[n], rest)

\* Sum of the entries of all parameter tensors.
ParamSum(Wc) ==
    SumTo([k \in 1..Len(ParamSeq) |->
             SumTo(Wc[ParamSeq[k]], Len(Wc[ParamSeq[k]]))], Len(ParamSeq))

\* Sum of the squared entries of all parameter tensors.
SumSquares(Wc) ==
    SumTo([k \in 1..Len(ParamSeq) |->
             SumTo([e \in 1..Len(Wc[ParamSeq[k]]) |->
                      FMul(Wc[ParamSeq[k]][e], Wc[ParamSeq[k]][e])],
                   Len(Wc[ParamSeq[k]]))], Len(ParamSeq))

\* The forward pass Z1, Z2, Z3, pY (library stand-in): what the network
\* computes from the parameters, here a number that every entry of every
\* parameter enters.
Forward(Wc) == ParamSum(Wc)

\* The rows on which the network's output is not finite (the softmax
\* saturates and log pY is -inf): those with a negative tag.
Saturates(x) == x < 0

\* -log pY[c] of one row, given the forward pass fw (library stand-in).
RowCost(x, c, fw) ==
    IF fw = NaN \/ Saturates(x) THEN NaN ELSE (x + c + fw) % 4

\* argmax of pY for one row (library stand-in), a class in 0 .. K-1; the
\* argmax of a row of nan is its first index.
RowPrediction(x, fw) ==
    IF fw = NaN \/ Saturates(x) THEN 0 ELSE (x + fw) % K

\* d(-log pY[c]) / d(entry e of parameter p) for one row (library stand-in);
\* it depends on the row, its class and, through fw, on every parameter.
RowGrad(p, e, x, c, fw) ==
    IF fw = NaN \/ Saturates(x) THEN NaN
    ELSE ((x + c + fw + Ord(p) + e) % 5) - 2

\* Faulty variant of reg_cost: only the weight tensors are penalised.
reg_cost_weights(Wc, r) ==
    r * SumTo([k \in 1..Len(ParamSeq) |->
                 IF IsWeight(ParamSeq[k])
                 THEN SumTo([e \in 1..Len(Wc[ParamSeq[k]]) |->
                               Wc[ParamSeq[k]][e] * Wc[ParamSeq[k]][e]],
                            Len(Wc[ParamSeq[k]]))
                 ELSE 0], Len(ParamSeq))

\* reg_cost = reg * sum of (param*param).sum() over params
reg_cost(Wc, r) == FMul(r, SumSquares(Wc))

\* cost = -(Y * T.log(pY)).sum() + reg_cost
cost(Xb, Yb, Wc, r) ==
    LET fw == Forward(Wc)
    IN  FAdd(SumTo([k \in 1..Len(Xb) |->
                      SumTo([c \in 1..Len(Yb[k]) |->
                               FMul(Yb[k][c], RowCost(Xb[k], c - 1, fw))],
                            Len(Yb[k]))], Len(Xb)),
             reg_cost(Wc, r))

\* prediction = T.argmax(pY, axis=1)
prediction(Xb, Wc) ==
    LET fw == Forward(Wc)
    IN  [k \in 1..Len(Xb) |-> RowPrediction(Xb[k], fw)]

\* T.grad(cost, p): the gradient of the summed cross-entropy plus the
\* gradient 2*reg*p of the L2 term, entry by entry.
T_grad(p, Xb, Yb, Wc, r) ==
    LET fw == Forward(Wc)
    IN  [e \in 1..Len(Wc[p]) |->
           FAdd(SumTo([k \in 1..Len(Xb) |->
                         SumTo([c \in 1..Len(Yb[k]) |->
                                  FMul(Yb[k][c],
                                       RowGrad(p, e, Xb[k], c - 1, fw))],
                               Len(Yb[k]))], Len(Xb)),
                FMul(2 * r, Wc[p][e]))]

\* Faulty variant of update_W: an entry whose new value is not finite keeps its
\* old value.
update_W_repaired(p, Wc, dWc, g, m, l) ==
    [e \in 1..Len(Wc[p]) |->
       LET new == FAdd(FAdd(Wc[p][e], FMul(m, dWc[p][e])), FMul(-l, g[p][e]))
       IN  IF new = NaN THEN Wc[p][e] ELSE new]

\* Faulty variant of update_W: the parameter moves by the accumulator's old value.
update_W_stale(p, Wc, dWc, g, m, l) ==
    [e \in 1..Len(Wc[p]) |-> Wc[p][e] + dWc[p][e]]

\* Faulty variant of update_W: the parameter expression halves the momentum
\* term that the accumulator expression takes whole.
update_W_drifting(p, Wc, dWc, g, m, l) ==
    [e \in 1..Len(Wc[p]) |->
       FAdd(FAdd(Wc[p][e], FMul(m \div 2, dWc[p][e])), FMul(-l, g[p][e]))]

\* update_W1 .. update_b4:  p + mu*dp - lr*T.grad(cost, p)
update_W(p, Wc, dWc, g, m, l) ==
    [e \in 1..Len(Wc[p]) |->
       FAdd(FAdd(Wc[p][e], FMul(m, dWc[p][e])), FMul(-l, g[p][e]))]

\* Faulty variant of update_dW: the step is summed over the tensor's entries,
\* which leaves an accumulator of a single entry.
update_dW_reduced(p, Wc, dWc, g, m, l) ==
    << SumTo([e \in 1..Len(dWc[p]) |-> m * dWc[p][e] - l * g[p][e]],
             Len(dWc[p])) >>

\* Faulty variant of update_dW: the gradient step is added instead of subtracted.
update_dW_ascent(p, Wc, dWc, g, m, l) ==
    [e \in 1..Len(dWc[p]) |-> m * dWc[p][e] + l * g[p][e]]

\* update_dW1 .. update_db4:  mu*dp - lr*T.grad(cost, p)
update_dW(p, Wc, dWc, g, m, l) ==
    [e \in 1..Len(dWc[p]) |-> FAdd(FMul(m, dWc[p][e]), FMul(-l, g[p][e]))]

\* Faulty variant of train: the parameters are assigned first, and the accumulator
\* updates are then evaluated on the parameters already changed.
train_two_phase(Xb, Yb, Wc, dWc, m, l, r) ==
    LET g  == [p \in ParamNames |-> T_grad(p, Xb, Yb, Wc, r)]
        Wn == [p \in ParamNames |-> update_W(p, Wc, dWc, g, m, l)]
        g2 == [p \in ParamNames |-> T_grad(p, Xb, Yb, Wn, r)]
    IN  [W  |-> Wn,
         dW |-> [p \in ParamNames |-> update_dW(p, Wn, dWc, g2, m, l)],
         g  |-> g]

\* train = theano.function(inputs=[X, Y], updates=[...]): every update
\* expression is evaluated on the values the shared variables hold when the
\* call starts, then all sixteen are assigned.
train(Xb, Yb, Wc, dWc, m, l, r) ==
    LET g == [p \in ParamNames |-> T_grad(p, Xb, Yb, Wc, r)]
    IN  [W  |-> [p \in ParamNames |-> update_W(p, Wc, dWc, g, m, l)],
         dW |-> [p \in ParamNames |-> update_dW(p, Wc, dWc, g, m, l)],
         g  |-> g]

\* get_prediction = theano.function(inputs=[X, Y], outputs=[cost, prediction])
get_prediction(Xb, Yb, Wc, r) == << cost(Xb, Yb, Wc, r), prediction(Xb, Wc) >>

\* Faulty variant of IntNBatches: the number of batches rounded up.
IntNBatches_ceil ==
    IF batch_sz > 0 THEN (N + batch_sz - 1) \div batch_sz ELSE IntDiv(N, batch_sz)

\* int(n_batches), with n_batches = N / batch_sz
IntNBatches == IntDiv(N, batch_sz)

-----------------------------------------------------------------------------
(* The notebook, cell by cell *)

\* What a notebook name holds before the cell that assigns it has run.
Undefined == "undefined"

\* The values lr, reg and mu are drawn from (lines 246-248), as integers.
Hyperparameters ==
    { [mu |-> 0, lr |-> 1, reg |-> 1],
      [mu |-> 2, lr |-> 1, reg |-> 0],
      [mu |-> 1, lr |-> 2, reg |-> 0] }

\* State after the cells up to the hyperparameter cell have run (lines
\* 153-256 and 276-423): the data is loaded, shuffled once and split, the
\* hyperparameters are set, the shared variables hold their initial values.
\* With batch_sz = 0 line 252 raises ZeroDivisionError and the run stops.
InitFrom(files) ==
    /\ \E file \in files :
      \E p \in Shuffles(Len(file)) :
        LET XY == get_normalized_data(Permute(file, p))
            Xn == XY[1]
            Yn == XY[2]
        IN  /\ data = file
            /\ Xtrain = PySliceTo(Xn, -Holdout)
            /\ Ytrain = PySliceTo(Yn, -Holdout)
            /\ Xtest = PySliceFrom(Xn, -Holdout)
            /\ Ytest = PySliceFrom(Yn, -Holdout)
            /\ Ytrain_ind = y2indicator(PySliceTo(Yn, -Holdout))
            /\ Ytest_ind = y2indicator(PySliceFrom(Yn, -Holdout))
            /\ N = Len(PySliceTo(Xn, -Holdout))
    /\ X = "X" /\ Y = "T"
    /\ max_iter \in 1..MaxIter
    /\ print_period \in 1..MaxPeriod
    /\ batch_sz \in -1..MaxBatch
    /\ \E h \in Hyperparameters : lr = h.lr /\ reg = h.reg /\ mu = h.mu
    /\ W = W_init
    /\ dW = dW_init
    /\ pc = (IF batch_sz = 0 THEN "error" ELSE "start")
    /\ LL = << >>
    /\ i = 0 /\ j = 0 /\ it_i = 0 /\ it_j = 0
    /\ Xbatch = << >> /\ Ybatch = << >>
    /\ cost_val = 0 /\ prediction_val = << >> /\ err = [wrong |-> 0, of |-> 0]
    /\ out = << >> /\ plotted = << >>
    /\ calls = << >>
    /\ test_cost = Undefined /\ k_test = Undefined /\ it_k = Undefined

Init == InitFrom({ Corpus(n) : n \in 1..MaxN })

\* The same, for a file that holds one saturating sample, first or last.
InitNonFinite ==
    InitFrom(UNION { { CorpusSaturating(n, s) : s \in {1, n} } : n \in 1..MaxN })

data_vars == << data, X, Y, Xtest, Ytest, Ytest_ind, Ytrain >>
hyper_vars == << max_iter, print_period, lr, reg, mu, N, batch_sz >>
eval_vars == << cost_val, prediction_val, err >>
tf_vars == << test_cost, k_test, it_k >>

\* lines 476-478: t0 = ..., LL = [], the epoch loop's range iterator
Start ==
    /\ pc = "start"
    /\ LL' = << >>
    /\ it_i' = 0
    /\ pc' = "for_i"
    /\ UNCHANGED << data_vars, hyper_vars, tf_vars,
                    eval_vars, Xtrain, Ytrain_ind, W, dW,
                    i, j, it_j, Xbatch, Ybatch, out, plotted, calls >>

\* lines 478-480: next epoch; reshuffle; the batch loop's range iterator
Shuffle ==
    /\ pc = "for_i"
    /\ it_i < max_iter
    /\ i' = it_i
    /\ it_i' = it_i + 1
    /\ \E p \in Shuffles(Len(Xtrain)) :
         /\ Xtrain' = shuffle(Xtrain, Ytrain_ind, p)[1]
         /\ Ytrain_ind' = shuffle(Xtrain, Ytrain_ind, p)[2]
    /\ it_j' = 0
    /\ pc' = "for_j"
    /\ UNCHANGED << data_vars, hyper_vars, tf_vars,
                    eval_vars, W, dW, LL, j, Xbatch,
                    Ybatch, out, plotted, calls >>

\* Faulty variant of LoopDone: the loop is also left once the recorded loss
\* has stopped falling.
LoopDone_early ==
    /\ pc = "for_i"
    /\ \/ it_i >= max_iter
       \/ Len(LL) >= 2 /\ LL[Len(LL)] >= LL[Len(LL) - 1]
    /\ pc' = "plot"
    /\ UNCHANGED << data_vars, hyper_vars, tf_vars,
                    eval_vars, Xtrain, Ytrain_ind, W, dW,
                    LL, i, j, it_i, it_j, Xbatch, Ybatch, out, plotted, calls >>

\* line 478: the epoch loop is exhausted
LoopDone ==
    /\ pc = "for_i"
    /\ it_i >= max_iter
    /\ pc' = "plot"
    /\ UNCHANGED << data_vars, hyper_vars, tf_vars,
                    eval_vars, Xtrain, Ytrain_ind, W, dW,
                    LL, i, j, it_i, it_j, Xbatch, Ybatch, out, plotted, calls >>

\* Faulty variant of Slice: the sliced batch goes to the period test without
\* the update step.
Slice_unordered ==
    /\ pc = "for_j"
    /\ it_j < IntNBatches
    /\ j' = it_j
    /\ it_j' = it_j + 1
    /\ Xbatch' = PySlice(Xtrain, it_j * batch_sz, it_j * batch_sz + batch_sz)
    /\ Ybatch' = PySlice(Ytrain_ind, it_j * batch_sz, it_j * batch_sz + batch_sz)
    /\ pc' = "if_period"
    /\ UNCHANGED << data_vars, hyper_vars, tf_vars,
                    eval_vars, Xtrain, Ytrain_ind, W, dW,
                    LL, i, it_i, out, plotted, calls >>

\* lines 480-482: next batch index; slice the batch
Slice ==
    /\ pc = "for_j"
    /\ it_j < IntNBatches
    /\ j' = it_j
    /\ it_j' = it_j + 1
    /\ Xbatch' = PySlice(Xtrain, it_j * batch_sz, it_j * batch_sz + batch_sz)
    /\ Ybatch' = PySlice(Ytrain_ind, it_j * batch_sz, it_j * batch_sz + batch_sz)
    /\ pc' = "train"
    /\ UNCHANGED << data_vars, hyper_vars, tf_vars,
                    eval_vars, Xtrain, Ytrain_ind, W, dW,
                    LL, i, it_i, out, plotted, calls >>

\* Faulty variant of EpochEnd: the history is plotted at the end of every
\* epoch, inside the epoch loop.
EpochEnd_plotting ==
    /\ pc = "for_j"
    /\ it_j >= IntNBatches
    /\ plotted' = LL
    /\ pc' = "for_i"
    /\ UNCHANGED << data_vars, hyper_vars, tf_vars,
                    eval_vars, Xtrain, Ytrain_ind, W, dW,
                    LL, i, j, it_i, it_j, Xbatch, Ybatch, out, calls >>

\* line 480: the batch loop is exhausted
EpochEnd ==
    /\ pc = "for_j"
    /\ it_j >= IntNBatches
    /\ pc' = "for_i"
    /\ UNCHANGED << data_vars, hyper_vars, tf_vars,
                    eval_vars, Xtrain, Ytrain_ind, W, dW,
                    LL, i, j, it_i, it_j, Xbatch, Ybatch, out, plotted, calls >>

\* line 484: train(Xbatch, Ybatch)
Train ==
    /\ pc = "train"
    /\ LET t == train(Xbatch, Ybatch, W, dW, mu, lr, reg)
       IN  /\ W' = t.W
           /\ dW' = t.dW
           /\ calls' = Append(calls, [fn |-> "train", i |-> i, j |-> j,
                                      X |-> Xbatch, g |-> t.g])
    /\ pc' = "if_period"
    /\ UNCHANGED << data_vars, hyper_vars, tf_vars,
                    eval_vars, Xtrain, Ytrain_ind, LL,
                    i, j, it_i, it_j, Xbatch, Ybatch, out, plotted >>

\* Faulty variant of EvaluationDue: the period is counted over the whole run.
EvaluationDue_running ==
    (Cardinality({ k \in 1..Len(calls) : calls[k].fn = "train" }) - 1)
       % print_period = 0

\* Faulty variant of EvaluationDue: the evaluation comes after every
\* print_period batches, so not after batch 0 unless print_period is 1.
EvaluationDue_period_end == (j + 1) % print_period = 0

\* line 485: if j % print_period == 0
EvaluationDue == j % print_period = 0

\* Faulty variant of LL_append: the history is replaced by its newest entry.
LL_overwrite(h, c) == << c >>

\* line 488: LL.append(cost_val)
LL_append(h, c) == Append(h, c)

\* Faulty variant of Evaluate: the holdout set is scored through train, which
\* applies its updates.
Evaluate_by_train ==
    /\ pc = "if_period"
    /\ EvaluationDue
    /\ LET r == get_prediction(Xtest, Ytest_ind, W, reg)
           t == train(Xtest, Ytest_ind, W, dW, mu, lr, reg)
       IN  /\ cost_val' = r[1]
           /\ prediction_val' = r[2]
           /\ err' = error_rate(r[2], Ytest)
           /\ LL' = LL_append(LL, r[1])
           /\ W' = t.W
           /\ dW' = t.dW
    /\ calls' = Append(calls, [fn |-> "get_prediction", i |-> i, j |-> j,
                               X |-> Xtest, Y |-> Ytest_ind, T |-> Ytest])
    /\ pc' = "if_print"
    /\ UNCHANGED << data_vars, hyper_vars, tf_vars, Xtrain, Ytrain_ind, i, j,
                    it_i, it_j, Xbatch, Ybatch, out, plotted >>

\* lines 485-488: the evaluation is due
Evaluate ==
    /\ pc = "if_period"
    /\ EvaluationDue
    /\ LET r == get_prediction(Xtest, Ytest_ind, W, reg)
       IN  /\ cost_val' = r[1]
           /\ prediction_val' = r[2]
           /\ err' = error_rate(r[2], Ytest)
           /\ LL' = LL_append(LL, r[1])
    /\ calls' = Append(calls, [fn |-> "get_prediction", i |-> i, j |-> j,
                               X |-> Xtest, Y |-> Ytest_ind, T |-> Ytest])
    /\ pc' = "if_print"
    /\ UNCHANGED << data_vars, hyper_vars, tf_vars,
                    Xtrain, Ytrain_ind, W, dW, i, j,
                    it_i, it_j, Xbatch, Ybatch, out, plotted >>

\* Faulty variant of SkipEvaluate: the last cost is appended again when no
\* evaluation is due.
SkipEvaluate_appending ==
    /\ pc = "if_period"
    /\ ~EvaluationDue
    /\ LL' = LL_append(LL, cost_val)
    /\ pc' = "for_j"
    /\ UNCHANGED << data_vars, hyper_vars, tf_vars,
                    eval_vars, Xtrain, Ytrain_ind, W, dW,
                    i, j, it_i, it_j, Xbatch, Ybatch, out, plotted, calls >>

\* line 485: the evaluation is not due
SkipEvaluate ==
    /\ pc = "if_period"
    /\ ~EvaluationDue
    /\ pc' = "for_j"
    /\ UNCHANGED << data_vars, hyper_vars, tf_vars,
                    eval_vars, Xtrain, Ytrain_ind, W, dW,
                    LL, i, j, it_i, it_j, Xbatch, Ybatch, out, plotted, calls >>

\* lines 489-490: print on the configured cadence
PrintLine ==
    /\ pc = "if_print"
    /\ out' = IF (i % 2 = 0 \/ i % 29 = 0) /\ j % 100 = 0
              THEN Append(out, << i, j, cost_val, err >>)
              ELSE out
    /\ pc' = "for_j"
    /\ UNCHANGED << data_vars, hyper_vars, tf_vars,
                    eval_vars, Xtrain, Ytrain_ind, W, dW,
                    LL, i, j, it_i, it_j, Xbatch, Ybatch, plotted, calls >>

\* lines 492-494: print the elapsed time, plot the history
Plot ==
    /\ pc = "plot"
    /\ plotted' = LL
    /\ pc' = "done"
    /\ UNCHANGED << data_vars, hyper_vars, tf_vars,
                    eval_vars, Xtrain, Ytrain_ind, W, dW,
                    LL, i, j, it_i, it_j, Xbatch, Ybatch, out, calls >>

Next ==
    \/ Start
    \/ Shuffle
    \/ LoopDone
    \/ Slice
    \/ EpochEnd
    \/ Train
    \/ Evaluate
    \/ SkipEvaluate
    \/ PrintLine
    \/ Plot

Spec == Init /\ [][Next]_vars

\* The training cell on data that holds a saturating sample.
SpecNonFinite == InitNonFinite /\ [][Next]_vars

\* Faulty variant of TrainRaises: the failed call is made again.
TrainRaises_retry ==
    /\ pc = "train"
    /\ calls' = Append(calls, [fn |-> "train_raised", i |-> i, j |-> j,
                               X |-> Xbatch])
    /\ pc' = "train"
    /\ UNCHANGED << data_vars, hyper_vars, tf_vars,
                    eval_vars, Xtrain, Ytrain_ind, W, dW,
                    LL, i, j, it_i, it_j, Xbatch, Ybatch, out, plotted >>

\* line 484, when train(Xbatch, Ybatch) raises: nothing in the cell catches
\* the exception, so it leaves both loops and ends the cell.  The compiled
\* function assigns its updates after computing them; the exception comes
\* either before the assignment or after it.
TrainRaises ==
    /\ pc = "train"
    /\ \E assigned \in BOOLEAN :
         LET t == train(Xbatch, Ybatch, W, dW, mu, lr, reg)
         IN  /\ W' = IF assigned THEN t.W ELSE W
             /\ dW' = IF assigned THEN t.dW ELSE dW
    /\ calls' = Append(calls, [fn |-> "train_raised", i |-> i, j |-> j,
                               X |-> Xbatch])
    /\ pc' = "error"
    /\ UNCHANGED << data_vars, hyper_vars, tf_vars,
                    eval_vars, Xtrain, Ytrain_ind,
                    LL, i, j, it_i, it_j, Xbatch, Ybatch, out, plotted >>

\* The training cell when a train call may raise.
NextRaising ==
    \/ Next
    \/ TrainRaises

SpecRaising == Init /\ [][NextRaising]_vars

-----------------------------------------------------------------------------
(* The data cells (lines 153-225), with the pixel values kept.               *)
(*                                                                           *)
(* Column statistics are kept exact by scaling with the number of rows n:    *)
(* mu[c] is n * mean, std[c] is (n * std)^2 = n * sum(x^2) - sum(x)^2, and   *)
(* a normalised entry (x - mean) / std is the pair of n*x - n*mean and       *)
(* (n * std)^2.  A pair whose second component is 0 is a division by zero.   *)

\* Pixel values of the file.
PixelValues == {0, 255}

\* A file of n rows << label, pixel, pixel >>: the rows of Corpus(n), the
\* labels shifted by o, with one more pixel column a in front.
DataFile(n, a, o) ==
    [k \in 1..n |-> << (CorpusRow(k)[1] + o) % K, a[k], CorpusRow(k)[2] >>]

DataFiles ==
    UNION { { DataFile(n, a, o) : a \in [1..n -> PixelValues], o \in 0..(K - 1) }
            : n \in 1..MaxN }

\* X = data[:, 1:] and Y = data[:, 0]
Pixels(d) == [k \in 1..Len(d) |-> Tail(d[k])]
Labels(d) == [k \in 1..Len(d) |-> d[k][1]]

ColSum(Xr, c) == SumTo([k \in 1..Len(Xr) |-> Xr[k][c]], Len(Xr))
ColSumSq(Xr, c) == SumTo([k \in 1..Len(Xr) |-> Xr[k][c] * Xr[k][c]], Len(Xr))

\* mu = X.mean(axis=0), times n
X_mean(Xr) == [c \in 1..Len(Xr[1]) |-> ColSum(Xr, c)]

\* std = X.std(axis=0), times n and squared
X_std(Xr) ==
    [c \in 1..Len(Xr[1]) |->
       Len(Xr) * ColSumSq(Xr, c) - ColSum(Xr, c) * ColSum(Xr, c)]

\* Faulty variant of np_place: zero deviations are left in place.
np_place_skipped(std, n) == std

\* np.place(std, std == 0, 1); a deviation of 1 is n * n on the scale of std
np_place(std, n) == [c \in 1..Len(std) |-> IF std[c] = 0 THEN n * n ELSE std[c]]

\* X = (X - mu) / std
Standardize(Xr, m, sd) ==
    [k \in 1..Len(Xr) |->
       [c \in 1..Len(Xr[k]) |->
          [num |-> Len(Xr) * Xr[k][c] - m[c], den_sq |-> sd[c]]]]

\* State before the cell of line 184 runs: the file is read, nothing else
\* is assigned.
InitData ==
    /\ pc = "load"
    /\ data \in DataFiles
    /\ X = Undefined /\ Y = Undefined
    /\ Xtrain = Undefined /\ Ytrain = Undefined
    /\ Xtest = Undefined /\ Ytest = Undefined
    /\ Ytrain_ind = Undefined /\ Ytest_ind = Undefined
    /\ max_iter = Undefined /\ print_period = Undefined
    /\ lr = Undefined /\ reg = Undefined /\ mu = Undefined
    /\ N = Undefined /\ batch_sz = Undefined
    /\ W = Undefined /\ dW = Undefined
    /\ LL = Undefined
    /\ i = Undefined /\ j = Undefined /\ it_i = Undefined /\ it_j = Undefined
    /\ Xbatch = Undefined /\ Ybatch = Undefined
    /\ cost_val = Undefined /\ prediction_val = Undefined /\ err = Undefined
    /\ out = << >> /\ plotted = << >>
    /\ calls = << >>
    /\ test_cost = Undefined /\ k_test = Undefined /\ it_k = Undefined

later_vars == << hyper_vars, eval_vars, tf_vars, W, dW, LL, i, j, it_i, it_j, Xbatch,
                 Ybatch, out, plotted, calls >>
split_vars == << Xtrain, Ytrain, Xtest, Ytest, Ytrain_ind, Ytest_ind >>

\* lines 165-166, inside get_normalized_data: the matrix is shuffled by rows
ShuffleData ==
    /\ pc = "load"
    /\ \E p \in Shuffles(Len(data)) : data' = Permute(data, p)
    /\ pc' = "normalize"
    /\ UNCHANGED << X, Y, split_vars, later_vars >>

\* lines 167-173 and 184: the pixel columns are normalised and returned
\* with the label column
Normalize ==
    /\ pc = "normalize"
    /\ LET Xr == Pixels(data)
           sd == np_place(X_std(Xr), Len(Xr))
       IN  X' = Standardize(Xr, X_mean(Xr), sd)
    /\ Y' = Labels(data)
    /\ pc' = "split"
    /\ UNCHANGED << data, split_vars, later_vars >>

\* lines 196-225: reshape and astype keep the rows; the last Holdout rows
\* are held out and the indicator matrices are built
Split ==
    /\ pc = "split"
    /\ Xtrain' = PySliceTo(X, -Holdout)
    /\ Ytrain' = PySliceTo(Y, -Holdout)
    /\ Xtest' = PySliceFrom(X, -Holdout)
    /\ Ytest' = PySliceFrom(Y, -Holdout)
    /\ Ytrain_ind' = y2indicator(Ytrain')
    /\ Ytest_ind' = y2indicator(Ytest')
    /\ pc' = "prepared"
    /\ UNCHANGED << data, X, Y, later_vars >>

NextData ==
    \/ ShuffleData
    \/ Normalize
    \/ Split

SpecData == InitData /\ [][NextData]_vars

-----------------------------------------------------------------------------
(* Reading the call log *)

IsTrain(k) == calls[k].fn = "train"
IsEval(k) == calls[k].fn = "get_prediction"

TrainIdx == { k \in 1..Len(calls) : IsTrain(k) }
EvalIdx == { k \in 1..Len(calls) : IsEval(k) }

\* The train calls of epoch e.
TrainOfEpoch(e) == { k \in TrainIdx : calls[k].i = e }

\* Epoch e has run all its batches.
EpochComplete(e) ==
    \/ e < it_i - 1
    \/ /\ e = it_i - 1
       /\ \/ pc \in {"for_i", "plot", "done"}
          \/ pc = "for_j" /\ it_j >= IntNBatches

\* The one-hot row of class c.
OneHot(c) == [col \in 1..IndWidth |-> IF col = c + 1 THEN 1 ELSE 0]

-----------------------------------------------------------------------------
(* C1: in every epoch each whole batch j in 0 .. floor(N/batch_sz)-1 is      *)
(* processed by exactly one parameter-update step, the step is given the    *)
(* rows at positions j*batch_sz+1 .. j*batch_sz+batch_sz of that epoch's    *)
(* shuffled training set, and no row is in two batches of one epoch.        *)
C1_EachWholeBatchOnce ==
    batch_sz > 0 =>
      /\ \A e \in 0..(it_i - 1) :
           /\ \A k \in TrainOfEpoch(e) :
                /\ calls[k].j \in 0..(N \div batch_sz) - 1
                /\ Len(calls[k].X) = batch_sz
                /\ \A m \in TrainOfEpoch(e) :
                     m # k => /\ calls[m].j # calls[k].j
                              /\ Range(calls[m].X) \cap Range(calls[k].X) = {}
           /\ EpochComplete(e) =>
                \A b \in 0..(N \div batch_sz) - 1 :
                   Cardinality({ k \in TrainOfEpoch(e) : calls[k].j = b }) = 1
      /\ \A k \in TrainOfEpoch(i) :
           \A r \in 1..batch_sz :
              calls[k].X[r] = Xtrain[calls[k].j * batch_sz + r]

\* Two epochs have run, each with at least two whole batches.
C1_Witness ==
    /\ pc = "done"
    /\ batch_sz > 0
    /\ N \div batch_sz >= 2
    /\ it_i = 2
    /\ Cardinality(TrainOfEpoch(1)) >= 2

(* C2: when N is not a multiple of batch_sz, the N mod batch_sz rows at     *)
(* positions beyond floor(N/batch_sz)*batch_sz of the epoch's shuffled      *)
(* order are in no batch of that epoch: no train call of the epoch, and no  *)
(* batch sliced for it, contains one of them.                               *)
C2_RemainderRows ==
    { Xtrain[r] : r \in ((N \div batch_sz) * batch_sz + 1)..Len(Xtrain) }

\* C2: the remainder rows of an epoch are in none of its batches.
C2_RemainderDropped ==
    (batch_sz > 0 /\ N % batch_sz # 0 /\ it_i >= 1) =>
      /\ \A k \in TrainOfEpoch(i) : Range(calls[k].X) \cap C2_RemainderRows = {}
      /\ pc = "train" => Range(Xbatch) \cap C2_RemainderRows = {}
      /\ Cardinality(C2_RemainderRows) = N % batch_sz

\* The second epoch has run all its batches and left rows out.
C2_Witness ==
    /\ pc = "for_i"
    /\ it_i = 2
    /\ batch_sz > 0
    /\ N % batch_sz # 0
    /\ Cardinality(TrainOfEpoch(i)) >= 1
    /\ C2_RemainderRows # {}

(* C3: every parameter-update step sets each momentum accumulator to        *)
(* mu*v_old - lr*g, g being the gradient of the cost with respect to the    *)
(* accumulator's own parameter; hence after k steps that were fed the       *)
(* gradients g_1 .. g_k the accumulator is -lr * sum of mu^(k-n) * g_n.     *)
RECURSIVE Pow(_, _)
Pow(b, n) == IF n <= 0 THEN 1 ELSE b * Pow(b, n - 1)

TrainCalls == SelectSeq(calls, LAMBDA c : c.fn = "train")

C3_ClosedForm(p, e) ==
    LET k == Len(TrainCalls)
    IN  -lr * SumTo([n \in 1..k |-> Pow(mu, k - n) * TrainCalls[n].g[p][e]], k)

C3_StepRule ==
    pc = "train" =>
      \A p \in ParamNames :
         /\ DOMAIN dW'[p] = DOMAIN dW[p]
         /\ \A e \in DOMAIN dW[p] :
              dW'[p][e] = mu * dW[p][e] - lr * T_grad(p, Xbatch, Ybatch, W, reg)[e]

\* C3: each step sets v to mu*v - lr*g, and v is always the closed-form sum.
C3_MomentumRecurrence ==
    /\ [](\A p \in ParamNames : \A e \in DOMAIN dW[p] : dW[p][e] = C3_ClosedForm(p, e))
    /\ [][C3_StepRule]_vars

\* Three steps have run with mu = 2 and the accumulators are not all zero.
C3_Witness ==
    /\ mu = 2
    /\ Len(TrainCalls) >= 3
    /\ \E p \in ParamNames : \E e \in DOMAIN dW[p] :
          /\ dW[p][e] # 0
          /\ TrainCalls[1].g[p][e] # 0
          /\ TrainCalls[2].g[p][e] # TrainCalls[3].g[p][e]

(* C4: every parameter-update step moves each parameter by the accumulator  *)
(* value the same step produces, theta_new = theta_old + v_new; with mu = 0 *)
(* this is theta_old - lr*g, whatever the accumulator held before.          *)
C4_StepRule ==
    pc = "train" =>
      \A p \in ParamNames :
         /\ DOMAIN W'[p] = DOMAIN W[p]
         /\ \A e \in DOMAIN W[p] :
              /\ W'[p][e] = W[p][e] + dW'[p][e]
              /\ mu = 0 =>
                   W'[p][e] = W[p][e] - lr * T_grad(p, Xbatch, Ybatch, W, reg)[e]

\* C4: each step sets theta to theta + v_new (theta - lr*g when mu = 0).
C4_ParameterUsesNewVelocity == [][C4_StepRule]_vars

\* A step has run with mu = 0 on an accumulator that was not zero and that
\* the step changed.
C4_Witness ==
    /\ pc = "if_period"
    /\ mu = 0
    /\ Len(TrainCalls) >= 2
    /\ \E p \in ParamNames : \E e \in DOMAIN dW[p] :
          LET k == Len(TrainCalls)
          IN  /\ TrainCalls[k - 1].g[p][e] # 0
              /\ TrainCalls[k].g[p][e] # TrainCalls[k - 1].g[p][e]

(* C5: a parameter-update step is atomic over the parameter set: the new    *)
(* values of all eight parameters and all eight accumulators are the update *)
(* expressions evaluated on the parameters and accumulators held before the *)
(* step; none sees a value the same step has changed.                       *)
C5_StepRule ==
    pc = "train" =>
      /\ W' = [p \in ParamNames |->
                 [e \in DOMAIN W[p] |->
                    W[p][e] + mu * dW[p][e]
                      - lr * T_grad(p, Xbatch, Ybatch, W, reg)[e]]]
      /\ dW' = [p \in ParamNames |->
                  [e \in DOMAIN dW[p] |->
                     mu * dW[p][e] - lr * T_grad(p, Xbatch, Ybatch, W, reg)[e]]]

\* C5: each step computes all sixteen new values from the pre-step values.
C5_AtomicUpdate == [][C5_StepRule]_vars

\* A step has run after which some gradient, evaluated on the updated
\* parameters, differs from the gradient the step used.
C5_Witness ==
    /\ pc = "if_period"
    /\ Len(TrainCalls) >= 1
    /\ \E p \in ParamNames :
          T_grad(p, Xbatch, Ybatch, W, reg) # TrainCalls[Len(TrainCalls)].g[p]

(* C6: parameters and momentum accumulators change in the parameter-update  *)
(* step only: the reshuffle, the slicing, the metrics evaluation with its   *)
(* history append, the printing and the plot leave all of them unchanged.   *)
C6_OnlyTrainWrites == [][pc # "train" => (W' = W /\ dW' = dW)]_vars

\* A whole run of two epochs, with parameters moved, evaluations recorded
\* and a line printed.
C6_Witness ==
    /\ pc = "done"
    /\ it_i = 2
    /\ W # W_init
    /\ Len(LL) >= 2
    /\ out # << >>

(* C7: the reshuffle applies one permutation to the features and to the     *)
(* indicator rows: after any number of epochs row r of Ytrain_ind is the    *)
(* one-hot label of the sample in row r of Xtrain, the (feature, label)     *)
(* pairs of the training set are those present before the first epoch, and  *)
(* every minibatch pairs each feature row with its own indicator row.       *)
C7_Pairs == { << Xtrain[r], Ytrain_ind[r] >> : r \in 1..Len(Xtrain) }

C7_Paired ==
    /\ Len(Ytrain_ind) = Len(Xtrain)
    /\ \A r \in 1..Len(Xtrain) : Ytrain_ind[r] = OneHot(LabelOfTag(Xtrain[r]))
    /\ Cardinality(C7_Pairs) = Len(Xtrain)
    /\ pc = "train" =>
         /\ Len(Ybatch) = Len(Xbatch)
         /\ \A r \in 1..Len(Xbatch) : Ybatch[r] = OneHot(LabelOfTag(Xbatch[r]))

\* C7: rows stay paired with their labels and the set of pairs never changes.
C7_ShufflePreservesPairing ==
    /\ []C7_Paired
    /\ [][C7_Pairs' = C7_Pairs /\ Len(Xtrain') = Len(Xtrain)]_vars

\* In the second epoch a batch of two rows with different labels is about
\* to be trained on, and the training set is no longer in label order.
C7_Witness ==
    /\ pc = "train"
    /\ it_i = 2
    /\ Len(Xbatch) >= 2
    /\ Ybatch[1] # Ybatch[2]
    /\ Ytrain_ind # y2indicator(Ytrain)

(* C8: the holdout set is fixed and isolated: it is never changed after the *)
(* split, every metrics evaluation is passed these same rows and labels,    *)
(* and no holdout sample is in the training set or in any training batch.   *)
C8_Isolated ==
    /\ Range(Xtrain) \cap Range(Xtest) = {}
    /\ Len(Xtest) = Min(Holdout, N + Len(Xtest))
    /\ \A r \in 1..Len(Xtest) :
         /\ Ytest[r] = LabelOfTag(Xtest[r])
         /\ Ytest_ind[r] = OneHot(LabelOfTag(Xtest[r]))
    /\ \A k \in TrainIdx : Range(calls[k].X) \cap Range(Xtest) = {}
    /\ pc = "train" => Range(Xbatch) \cap Range(Xtest) = {}
    /\ \A k \in EvalIdx :
         /\ calls[k].X = Xtest
         /\ calls[k].Y = Ytest_ind
         /\ calls[k].T = Ytest

\* C8: the holdout set never changes and never meets the training data.
C8_HoldoutFixed ==
    /\ []C8_Isolated
    /\ [][Xtest' = Xtest /\ Ytest' = Ytest /\ Ytest_ind' = Ytest_ind]_vars

\* Two epochs have run, with training steps and at least two evaluations.
C8_Witness ==
    /\ pc = "done"
    /\ it_i = 2
    /\ Cardinality(EvalIdx) >= 2
    /\ Cardinality(TrainIdx) >= 4
    /\ Xtest # << >>

(* C9: the metrics recorder fires every print_period minibatches.           *)
\* Two evaluations with no evaluation between them.
C9_Consecutive(a, b) ==
    /\ a \in EvalIdx /\ b \in EvalIdx /\ a < b
    /\ \A k \in (a + 1)..(b - 1) : IsTrain(k)

\* The parameter-update steps made between calls a and b.
C9_StepsBetween(a, b) == Cardinality({ k \in (a + 1)..(b - 1) : IsTrain(k) })

\* C9 as claimed: counted over the whole run, across epoch boundaries, any
\* two consecutive evaluations are exactly print_period update steps apart.
C9_PeriodAcrossEpochs ==
    \A a, b \in 1..Len(calls) :
       C9_Consecutive(a, b) => C9_StepsBetween(a, b) = print_period

\* C9 as amended: two consecutive evaluations of one epoch are exactly
\* print_period update steps apart; the first evaluation of every epoch
\* follows the epoch's first update step (j = 0), so two consecutive
\* evaluations of different epochs are n - print_period*floor((n-1)/print_period)
\* update steps apart, n = floor(N/batch_sz) being the batches of an epoch.
C9_PeriodWithinEpoch ==
    /\ \A a, b \in 1..Len(calls) :
         C9_Consecutive(a, b) =>
           IF calls[a].i = calls[b].i
           THEN /\ C9_StepsBetween(a, b) = print_period
                /\ calls[b].j = calls[a].j + print_period
           ELSE /\ calls[b].i = calls[a].i + 1
                /\ calls[b].j = 0
                /\ C9_StepsBetween(a, b) =
                     (N \div batch_sz)
                       - print_period * (((N \div batch_sz) - 1) \div print_period)
    /\ \A b \in EvalIdx :
         (\A a \in 1..(b - 1) : IsTrain(a)) => (b = 2 /\ calls[b].j = 0)

\* Evaluations one period apart inside an epoch, and evaluations of two
\* successive epochs that are not one period apart.
C9_Witness ==
    /\ print_period = 2
    /\ \E a, b \in 1..Len(calls) :
          /\ C9_Consecutive(a, b)
          /\ calls[a].i = calls[b].i
    /\ \E a, b \in 1..Len(calls) :
          /\ C9_Consecutive(a, b)
          /\ calls[a].i # calls[b].i
          /\ C9_StepsBetween(a, b) # print_period

(* C10: the metrics history LL is append-only: it is empty when the loop    *)
(* starts, every metrics evaluation appends exactly one loss at its end,    *)
(* no other step changes it, and what was appended is never modified,       *)
(* reordered or removed.                                                    *)
C10_Step ==
    IF pc = "if_period" /\ j % print_period = 0
    THEN LL' = LL \o << cost_val' >>
    ELSE LL' = LL

\* C10: LL starts empty and only ever grows by one entry per evaluation.
C10_HistoryAppendOnly ==
    /\ LL = << >>
    /\ [](Len(LL) = Cardinality(EvalIdx))
    /\ [][C10_Step]_vars

\* A finished run whose history has three entries, not all equal.
C10_Witness ==
    /\ pc = "done"
    /\ Len(LL) >= 3
    /\ LL[1] # LL[2]
    /\ plotted = LL

(* C11: the run always ends, after exactly max_iter epochs and, for a        *)
(* positive batch size, exactly max_iter * floor(N/batch_sz) parameter-      *)
(* update steps, floor(N/batch_sz) in each epoch; the losses recorded on     *)
(* the way neither shorten nor lengthen it.                                  *)
C11_Counts ==
    /\ it_i <= max_iter
    /\ pc \in {"plot", "done"} =>
         /\ it_i = max_iter
         /\ { calls[k].i : k \in 1..Len(calls) } \subseteq 0..(max_iter - 1)
         /\ batch_sz > 0 =>
              /\ Cardinality(TrainIdx) = max_iter * (N \div batch_sz)
              /\ \A e \in 0..(max_iter - 1) :
                   Cardinality(TrainOfEpoch(e)) = N \div batch_sz

\* The statements still to run, as a number: epochs left, then batches left
\* in the epoch, then statements left in the batch.
C11_Rank ==
    LET nb == IF batch_sz = 0 THEN 0 ELSE Max(IntNBatches, 0)
    IN  IF pc = "error" THEN 0 ELSE
        (4 * nb + 4) * (max_iter - it_i)
        + CASE pc = "start"     -> 3
            [] pc = "for_i"     -> 2
            [] pc = "plot"      -> 1
            [] pc = "for_j"     -> 3 + 4 * (nb - it_j)
            [] pc = "train"     -> 3 + 4 * (nb - it_j) + 3
            [] pc = "if_period" -> 3 + 4 * (nb - it_j) + 2
            [] pc = "if_print"  -> 3 + 4 * (nb - it_j) + 1
            [] OTHER            -> 0

\* Some statement can run next.  The update step has no condition besides
\* its position, and the evaluation none besides its position and its
\* period: they can run when the values they assign exist.
C11_CanStep ==
    CASE pc = "start"     -> ENABLED Start
      [] pc = "for_i"     -> ENABLED Shuffle \/ ENABLED LoopDone
      [] pc = "for_j"     -> ENABLED Slice \/ ENABLED EpochEnd
      [] pc = "train"     -> DOMAIN train(Xbatch, Ybatch, W, dW, mu, lr, reg).W
                               = ParamNames
      [] pc = "if_period" ->
           \/ /\ EvaluationDue
              /\ Len(get_prediction(Xtest, Ytest_ind, W, reg)[2]) = Len(Xtest)
           \/ ENABLED SkipEvaluate
      [] pc = "if_print"  -> ENABLED PrintLine
      [] pc = "plot"      -> ENABLED Plot
      [] OTHER            -> FALSE

\* C11: the epoch and step counts are exact; until its last statement has run
\* the cell can always take a step, and every step consumes one of the
\* finitely many statements left, so every run ends at pc = "done".
C11_FixedEpochs ==
    /\ [](/\ C11_Counts
          /\ pc \notin {"done", "error"} => C11_CanStep
          /\ C11_Rank >= 0
          /\ C11_Rank = 0 <=> pc \in {"done", "error"})
    /\ [][C11_Rank' < C11_Rank]_vars

\* A finished run of two epochs and at least four steps during which the
\* recorded loss rose at one evaluation and fell at another.
C11_Witness ==
    /\ pc = "done"
    /\ max_iter = 2
    /\ Cardinality(TrainIdx) >= 4
    /\ \E k \in 1..(Len(LL) - 1) : LL[k + 1] > LL[k]
    /\ \E k \in 1..(Len(LL) - 1) : LL[k + 1] < LL[k]

(* C15: after any number of parameter-update steps every parameter tensor   *)
(* and every momentum accumulator has the shape it was created with, and    *)
(* each accumulator has the shape of its parameter.                         *)
C15_ShapesFixed ==
    /\ DOMAIN W = ParamNames
    /\ DOMAIN dW = ParamNames
    /\ \A p \in ParamNames :
         /\ DOMAIN W[p] = DOMAIN W_init[p]
         /\ DOMAIN dW[p] = DOMAIN dW_init[p]
         /\ DOMAIN dW[p] = DOMAIN W[p]
         /\ Len(W[p]) = Size(p)

\* Three update steps have run and changed every weight tensor and every
\* accumulator of a weight tensor.
C15_Witness ==
    /\ Cardinality(TrainIdx) >= 3
    /\ \A p \in ParamNames :
         IsWeight(p) => (W[p] # W_init[p] /\ dW[p] # dW_init[p])

(* C16: the cost is the summed cross-entropy plus reg times the sum of the  *)
(* squares of all entries of all eight parameter tensors, biases included;  *)
(* with reg = 0 the term is exactly 0, whatever the parameters hold, and    *)
(* the cost is the summed cross-entropy alone.                              *)
C16_Sq(t) == SumTo([e \in 1..Len(t) |-> t[e] * t[e]], Len(t))

C16_AllSquares ==
    C16_Sq(W["W1"]) + C16_Sq(W["b1"]) + C16_Sq(W["W2"]) + C16_Sq(W["b2"])
      + C16_Sq(W["W3"]) + C16_Sq(W["b3"]) + C16_Sq(W["W4"]) + C16_Sq(W["b4"])

\* The summed cross-entropy of the holdout set: -log pY of each row's class.
C16_CrossEntropy ==
    SumTo([k \in 1..Len(Xtest) |-> RowCost(Xtest[k], Ytest[k], Forward(W))],
          Len(Xtest))

\* C16: the cost just evaluated is cross-entropy + reg * (sum of squares).
C16_RegTerm ==
    pc = "if_print" =>
      /\ cost_val = C16_CrossEntropy + reg * C16_AllSquares
      /\ cost_val - C16_CrossEntropy = reg_cost(W, reg)
      /\ reg = 0 => (reg_cost(W, reg) = 0 /\ cost_val = C16_CrossEntropy)
      /\ reg > 0 => cost_val - C16_CrossEntropy = reg * C16_AllSquares

\* With reg = 0 the cost has just been evaluated on parameters that have
\* grown large, biases included.
C16_Witness ==
    /\ pc = "if_print"
    /\ reg = 0
    /\ Xtest # << >>
    /\ C16_AllSquares >= 100
    /\ C16_Sq(W["b1"]) > 0
    /\ cost_val = C16_CrossEntropy

(* C17: when N is not a multiple of batch_sz the remainder rows are         *)
(* processed each epoch as one final shorter batch, so that every training  *)
(* row is used by some parameter-update step in every epoch.                *)
\* The training rows given to the update steps of epoch e.
C17_UsedRows(e) == UNION { Range(calls[k].X) : k \in TrainOfEpoch(e) }

\* C17 as claimed: every finished epoch has used every training row.
C17_RemainderProcessed ==
    batch_sz > 0 =>
      \A e \in 0..(it_i - 1) :
         EpochComplete(e) => C17_UsedRows(e) = Range(Xtrain)

\* C17 as amended: there is no shorter batch.  Every update step is given
\* exactly batch_sz rows, and every finished epoch has left exactly
\* N mod batch_sz training rows unused.
C17_WholeBatchesOnly ==
    batch_sz > 0 =>
      /\ \A k \in TrainIdx : Len(calls[k].X) = batch_sz
      /\ pc = "train" => Len(Xbatch) = batch_sz
      /\ \A e \in 0..(it_i - 1) :
           EpochComplete(e) =>
             /\ C17_UsedRows(e) \subseteq Range(Xtrain)
             /\ Cardinality(Range(Xtrain) \ C17_UsedRows(e)) = N % batch_sz

\* Two epochs have finished with N not a multiple of batch_sz; each left
\* rows unused, and not the same rows.
C17_Witness ==
    /\ pc = "done"
    /\ it_i = 2
    /\ batch_sz > 0
    /\ N > batch_sz
    /\ N % batch_sz # 0
    /\ C17_UsedRows(0) # C17_UsedRows(1)
    /\ C17_UsedRows(0) # Range(Xtrain)

(* C18: a configuration whose holdout takes the whole dataset (no training  *)
(* row is left), or whose batch size is zero or negative, makes the run     *)
(* stop with an error before the first parameter-update step and before     *)
(* any metrics evaluation.                                                  *)
C18_BadConfiguration == N = 0 \/ batch_sz <= 0

\* C18: such a run makes no call and does not run to its end.
C18_RejectedEarly ==
    C18_BadConfiguration => (calls = << >> /\ pc \notin {"plot", "done"})

\* What the notebook does: only batch_sz = 0 stops the run, at line 252.
\* With an empty training set or a negative batch size no error is raised;
\* the loops run empty, so that no update step and no evaluation is made,
\* the parameters keep their initial values and the history stays empty.
C18_OnlyZeroBatchFails ==
    /\ pc = "error" <=> batch_sz = 0
    /\ C18_BadConfiguration =>
         /\ calls = << >>
         /\ LL = << >>
         /\ W = W_init /\ dW = dW_init
         /\ pc \notin {"train", "if_period", "if_print"}
         /\ pc = "done" => (it_i = max_iter /\ plotted = << >>)

\* A run whose holdout took every row has gone through its two epochs and
\* ended normally, with a usable batch size.
C18_Witness ==
    /\ pc = "done"
    /\ N = 0
    /\ Xtest # << >>
    /\ batch_sz > 0
    /\ it_i = 2

(* C20: there is no retry.  Each (epoch, batch) parameter-update step is    *)
(* attempted at most once; when an attempt raises, the run is over: no      *)
(* later update step, evaluation or any other statement runs, so the        *)
(* accumulators are not updated again for that batch.                       *)
\* The attempted update steps: the train calls that returned or raised.
C20_Attempts ==
    { k \in 1..Len(calls) : calls[k].fn \in {"train", "train_raised"} }

C20_Raised == { k \in 1..Len(calls) : calls[k].fn = "train_raised" }

C20_AtMostOnce ==
    /\ \A a, b \in C20_Attempts :
         (calls[a].i = calls[b].i /\ calls[a].j = calls[b].j) => a = b
    /\ Cardinality(C20_Raised) <= 1
    /\ C20_Raised # {} => (pc = "error" /\ C20_Raised = {Len(calls)})
    /\ (pc = "error" /\ batch_sz # 0) => C20_Raised # {}

\* C20: one attempt per step, and nothing runs after a failed attempt.
C20_NoRetry ==
    /\ []C20_AtMostOnce
    /\ [][pc # "error" /\ C20_Raised = {}]_vars

\* An update step has raised in the first of two epochs, after two steps
\* and an evaluation, with batches of the epoch still to come.
C20_Witness ==
    /\ pc = "error"
    /\ C20_Raised # {}
    /\ max_iter = 2
    /\ it_i = 1
    /\ it_j < IntNBatches
    /\ Cardinality(TrainIdx) >= 2
    /\ EvalIdx # {}

(* C19: non-finite values are neither detected nor repaired.  When a        *)
(* gradient, a parameter or a loss is not finite, no error is raised, the   *)
(* loop runs all its remaining batches and epochs, the parameters and       *)
(* accumulators reached by the value stay non-finite, and the non-finite    *)
(* loss is appended to the history like any other.                          *)
C19_NonFinite(T) == \E p \in ParamNames : \E e \in DOMAIN T[p] : T[p][e] = NaN

C19_State ==
    /\ pc = "error" => batch_sz = 0
    /\ C11_Counts
    /\ pc \notin {"done", "error"} => C11_CanStep
    /\ \A k \in TrainIdx : \A p \in ParamNames : \A e \in DOMAIN W[p] :
         calls[k].g[p][e] = NaN => (W[p][e] = NaN /\ dW[p][e] = NaN)
    /\ Len(LL) = Cardinality(EvalIdx)
    /\ pc = "if_print" =>
         /\ LL[Len(LL)] = cost_val
         /\ (C19_NonFinite(W) \/ \E r \in 1..Len(Xtest) : Saturates(Xtest[r]))
              => cost_val = NaN

C19_Step ==
    /\ \A p \in ParamNames : \A e \in DOMAIN W[p] :
         /\ W[p][e] = NaN => W'[p][e] = NaN
         /\ dW[p][e] = NaN => dW'[p][e] = NaN
    /\ \A k \in 1..Len(LL) : LL[k] = NaN => (Len(LL') >= k /\ LL'[k] = NaN)
    /\ (pc = "train" /\ \E r \in 1..Len(Xbatch) : Saturates(Xbatch[r]))
         => (C19_NonFinite(W') /\ C19_NonFinite(dW') /\ pc' = "if_period")

\* C19: the run goes on to its end with the non-finite values in place.
C19_NotDetected ==
    /\ []C19_State
    /\ [][C19_Step]_vars

\* A run of two epochs has ended normally: its first update step was
\* finite, a later one was not, two more steps followed, the parameters are
\* not finite, and the history holds finite losses followed by non-finite.
C19_Witness ==
    /\ pc = "done"
    /\ max_iter = 2
    /\ C19_NonFinite(W)
    /\ C19_NonFinite(dW)
    /\ TrainCalls[1].g["W1"][1] # NaN
    /\ Cardinality({ k \in 1..Len(TrainCalls) : TrainCalls[k].g["W1"][1] = NaN }) >= 3
    /\ Len(LL) >= 3
    /\ LL[1] # NaN
    /\ LL[Len(LL)] = NaN
    /\ plotted = LL

(* C12: for a dataset of more rows than the holdout, the split gives the    *)
(* first n - Holdout rows of the shuffled data to the training partition    *)
(* and the last Holdout rows to the holdout partition; the partitions share *)
(* no sample and together hold every sample exactly once.                   *)
C12_Partition ==
    (pc = "prepared" /\ Len(X) > Holdout) =>
      LET n == Len(X)
      IN  /\ Len(data) = n /\ Len(Y) = n
          /\ Len(Xtrain) = n - Holdout /\ Len(Ytrain) = n - Holdout
          /\ Len(Xtest) = Holdout /\ Len(Ytest) = Holdout
          /\ \A r \in 1..(n - Holdout) : Xtrain[r] = X[r] /\ Ytrain[r] = Y[r]
          /\ \A r \in 1..Holdout :
               Xtest[r] = X[n - Holdout + r] /\ Ytest[r] = Y[n - Holdout + r]
          /\ Xtrain \o Xtest = X
          /\ Range(Xtrain) \cap Range(Xtest) = {}
          /\ Cardinality(Range(Xtrain) \cup Range(Xtest)) = n
          /\ \A r \in 1..n : Y[r] = data[r][1]

\* A shuffled dataset of at least four rows has been split.
C12_Witness ==
    /\ pc = "prepared"
    /\ Len(X) >= Holdout + 3
    /\ Len(Xtrain) = Len(X) - Holdout
    /\ Xtest # << >>
    /\ Ytrain[1] # Ytest[1]

(* C13: y2indicator(y), for labels in 0 .. 9, is a matrix of Len(y) rows    *)
(* and 10 columns whose row i holds a 1 in the column of label y[i] and 0   *)
(* in every other column, so that every row sums to 1; for y = 0, 3, 9 the  *)
(* ones are at (0,0), (1,3), (2,9).                                         *)
C13_IsIndicator(ind, y) ==
    /\ Len(ind) = Len(y)
    /\ \A r \in 1..Len(y) :
         /\ y[r] \in 0..9
         /\ DOMAIN ind[r] = 1..10
         /\ ind[r][y[r] + 1] = 1
         /\ \A c \in 1..10 : c # y[r] + 1 => ind[r][c] = 0
         /\ SumTo(ind[r], 10) = 1

\* C13: both indicator matrices built by the split are one-hot, and so is
\* the matrix of the labels 0, 3, 9.
C13_OneHot ==
    /\ pc = "prepared" =>
         /\ C13_IsIndicator(Ytrain_ind, Ytrain)
         /\ C13_IsIndicator(Ytest_ind, Ytest)
    /\ y2indicator(<< 0, 3, 9 >>) =
         << << 1, 0, 0, 0, 0, 0, 0, 0, 0, 0 >>,
            << 0, 0, 0, 1, 0, 0, 0, 0, 0, 0 >>,
            << 0, 0, 0, 0, 0, 0, 0, 0, 0, 1 >> >>

\* Indicator matrices have been built for training labels that include
\* the first and the last class.
C13_Witness ==
    /\ pc = "prepared"
    /\ Len(Ytrain) >= 3
    /\ {0, 9} \subseteq Range(Ytrain)
    /\ Ytrain_ind[1] # Ytrain_ind[2]
    /\ Len(Ytest_ind) = Len(Ytest)

(* C14: get_normalized_data turns every constant feature column (standard   *)
(* deviation 0) into a column of zeros, the zero divisor being replaced by  *)
(* 1; it never divides by zero; every other column is (x - mean) / std.     *)
C14_Constant(Xr, c) == \A k \in 1..Len(Xr) : Xr[k][c] = Xr[1][c]

C14_Column(Xr, c) ==
    LET n == Len(Xr)
        S == SumTo([k \in 1..n |-> Xr[k][c]], n)
        Q == SumTo([k \in 1..n |-> Xr[k][c] * Xr[k][c]], n)
    IN  /\ \A k \in 1..n : X[k][c].den_sq # 0
        /\ C14_Constant(Xr, c) =>
             \A k \in 1..n : X[k][c] = [num |-> 0, den_sq |-> n * n]
        /\ ~C14_Constant(Xr, c) =>
             /\ \A k \in 1..n :
                  /\ X[k][c].num = n * Xr[k][c] - S
                  /\ X[k][c].den_sq = n * Q - S * S
                  /\ X[k][c].den_sq > 0
             /\ SumTo([k \in 1..n |-> X[k][c].num], n) = 0
             /\ SumTo([k \in 1..n |-> X[k][c].num * X[k][c].num], n)
                  = n * X[1][c].den_sq

\* C14: every column of the normalised matrix is as described.
C14_Normalized ==
    pc \in {"split", "prepared"} =>
      /\ Len(X) = Len(data)
      /\ \A k \in 1..Len(X) : Len(X[k]) = Len(data[k]) - 1
      /\ \A c \in 1..(Len(data[1]) - 1) : C14_Column(Pixels(data), c)

\* A matrix of three rows or more has been normalised whose first pixel
\* column is constant and not zero and whose last pixel column is not
\* constant.
C14_Witness ==
    /\ pc = "split"
    /\ Len(data) >= 3
    /\ \A k \in 1..Len(data) : data[k][2] = 255
    /\ ~C14_Constant(Pixels(data), 2)
    /\ X[1][1].num = 0
    /\ X[1][2].num # 0

-----------------------------------------------------------------------------
(* C21: the loop is strictly sequential.  At most one of shuffle, slice,    *)
(* parameter update and metrics evaluation happens in a step, each step is  *)
(* whole (nothing of it is left for a later step), and within one batch     *)
(* iteration the slice comes first, then the parameter update, then, if     *)
(* due, the metrics evaluation.                                             *)
C21_Shuffles == Xtrain' # Xtrain \/ Ytrain_ind' # Ytrain_ind \/ i' # i
C21_Slices == Xbatch' # Xbatch \/ Ybatch' # Ybatch \/ j' # j
C21_Updates ==
    W' # W \/ dW' # dW \/ Cardinality(TrainIdx') # Cardinality(TrainIdx)
C21_Evaluates ==
    \/ LL' # LL
    \/ << cost_val, prediction_val, err >>' # << cost_val, prediction_val, err >>
    \/ Cardinality(EvalIdx') # Cardinality(EvalIdx)

C21_Count(b) == IF b THEN 1 ELSE 0

\* One kind of step at a time, and the statements follow one another in the
\* order of the source.
C21_OneAtATime ==
    /\ C21_Count(C21_Shuffles) + C21_Count(C21_Slices)
         + C21_Count(C21_Updates) + C21_Count(C21_Evaluates) <= 1
    /\ C21_Shuffles => pc = "for_i" /\ pc' = "for_j"
    /\ C21_Slices => pc = "for_j" /\ pc' = "train"
    /\ C21_Updates => pc = "train" /\ pc' = "if_period"
    /\ C21_Evaluates => pc = "if_period" /\ pc' = "if_print"
    /\ pc' = "train" => C21_Slices \/ (Xbatch' = Xbatch /\ pc = "for_j")
    /\ pc = "train" =>
         /\ Cardinality(TrainIdx') = Cardinality(TrainIdx) + 1
         /\ calls'[Len(calls')].X = Xbatch
         /\ calls'[Len(calls')].i = i /\ calls'[Len(calls')].j = j
    /\ (pc = "if_period" /\ EvaluationDue) =>
         /\ Len(LL') = Len(LL) + 1
         /\ Cardinality(EvalIdx') = Cardinality(EvalIdx) + 1

\* In the log every evaluation directly follows the update of its own
\* batch, and the batch of an update is the slice of its own index.
C21_LogOrder ==
    /\ \A k \in EvalIdx :
         /\ k > 1
         /\ IsTrain(k - 1)
         /\ calls[k - 1].i = calls[k].i
         /\ calls[k - 1].j = calls[k].j
    /\ \A k \in TrainIdx :
         (calls[k].i = i /\ batch_sz > 0) =>
            calls[k].X = PySlice(Xtrain, calls[k].j * batch_sz,
                                 calls[k].j * batch_sz + batch_sz)
    /\ pc \in {"if_period", "if_print"} =>
         /\ calls # << >>
         /\ LET last == IF pc = "if_print" THEN Len(calls) - 1 ELSE Len(calls)
            IN  /\ last >= 1
                /\ IsTrain(last)
                /\ calls[last].i = i /\ calls[last].j = j
                /\ calls[last].X = Xbatch

C21_StrictlySequential == []C21_LogOrder /\ [][C21_OneAtATime]_vars

\* A batch iteration of the second epoch has sliced, updated and evaluated.
C21_Witness ==
    /\ pc = "if_print"
    /\ it_i = 2
    /\ j >= 1
    /\ Len(calls) >= 4
    /\ IsEval(Len(calls))
    /\ IsTrain(Len(calls) - 1)

-----------------------------------------------------------------------------
(* C22: the error rate of a metrics evaluation is the fraction of holdout   *)
(* samples whose predicted class (one per sample, the arg-max of the class  *)
(* probabilities under the parameters of the evaluation) differs from the   *)
(* true holdout label; it is 0 when every prediction is right, 1 when every *)
(* prediction is wrong, and always between 0 and 1.  The rate is the pair   *)
(* err.wrong / err.of.                                                      *)
C22_Misses == { k \in 1..Len(Ytest) : prediction_val[k] # Ytest[k] }

-----------------------------------------------------------------------------
(* C24: every momentum accumulator is all zero before the first             *)
(* parameter-update step, so after the first step of a run every            *)
(* accumulator is -lr*g and every parameter is its initial value minus      *)
(* lr*g, g being the gradient fed to that step, whatever mu is.             *)
C24_AllZero ==
    \A p \in ParamNames :
       /\ DOMAIN dW[p] = DOMAIN W[p]
       /\ \A e \in DOMAIN dW[p] : dW[p][e] = 0

C24_ZeroStart ==
    /\ TrainIdx = {} => C24_AllZero /\ W = W_init
    /\ Cardinality(TrainIdx) = 1 =>
         LET g == TrainCalls[1].g
         IN  \A p \in ParamNames :
                \A e \in DOMAIN W[p] :
                   /\ dW[p][e] = -lr * g[p][e]
                   /\ W[p][e] = W_init[p][e] - lr * g[p][e]

\* The first step has run with mu # 0 and a gradient that is not zero.
C24_Witness ==
    /\ pc = "if_period"
    /\ Cardinality(TrainIdx) = 1
    /\ mu # 0
    /\ \E p \in ParamNames : \E e \in DOMAIN dW[p] : dW[p][e] # 0

-----------------------------------------------------------------------------
(* C25: within an epoch a metrics evaluation fires after the parameter      *)
(* update of batch j exactly when j mod print_period = 0, once, and after   *)
(* no other batch; so it fires after the first batch (j = 0) of every epoch *)
(* that has a batch, it is given the parameters that batch's update left,   *)
(* and no evaluation is made before the first update.                       *)
C25_EvalsOf(e, b) == { k \in EvalIdx : calls[k].i = e /\ calls[k].j = b }

\* The update of call k has passed the period test.
C25_Decided(k) == k < Len(calls) \/ pc # "if_period"

C25_Log ==
    /\ \A k \in TrainIdx :
         C25_Decided(k) =>
            Cardinality(C25_EvalsOf(calls[k].i, calls[k].j))
              = IF calls[k].j % print_period = 0 THEN 1 ELSE 0
    /\ \A k \in EvalIdx :
         /\ calls[k].j % print_period = 0
         /\ k > 1 /\ IsTrain(k - 1)
         /\ calls[k - 1].i = calls[k].i /\ calls[k - 1].j = calls[k].j
    /\ \A e \in 0..(it_i - 1) :
         (\E k \in TrainOfEpoch(e) : C25_Decided(k)) =>
            C25_EvalsOf(e, 0) # {}
    /\ TrainIdx = {} => (EvalIdx = {} /\ LL = << >>)

C25_Step ==
    /\ pc' = "if_period" =>
         /\ pc = "train"
         /\ W' = train(Xbatch, Ybatch, W, dW, mu, lr, reg).W
         /\ IsTrain(Len(calls))'
         /\ calls'[Len(calls')].i = i' /\ calls'[Len(calls')].j = j'
    /\ pc = "if_period" =>
         IF j % print_period = 0
         THEN /\ Cardinality(EvalIdx') = Cardinality(EvalIdx) + 1
              /\ cost_val' = cost(Xtest, Ytest_ind, W, reg)
              /\ prediction_val' = prediction(Xtest, W)
              /\ W' = W
         ELSE /\ EvalIdx' = EvalIdx
              /\ UNCHANGED << LL, cost_val, prediction_val, err >>
    /\ EvalIdx' # EvalIdx => pc = "if_period"

C25_EvaluationCadence == []C25_Log /\ [][C25_Step]_vars

\* The second epoch has evaluated after batch 0 and not after batch 1.
C25_Witness ==
    /\ pc = "for_j"
    /\ it_i = 2
    /\ print_period = 2
    /\ j = 1
    /\ C25_EvalsOf(1, 0) # {}
    /\ C25_EvalsOf(1, 1) = {}
    /\ \E k \in TrainOfEpoch(1) : calls[k].j = 1

-----------------------------------------------------------------------------
(* C26: the plotting step reads the metrics history only after the last     *)
(* epoch has finished: what is plotted is the whole history, nothing is     *)
(* appended to LL once it is plotted, and no plot is made while epochs      *)
(* remain.                                                                  *)
C26_Plotted ==
    /\ pc = "done" =>
         /\ plotted = LL
         /\ it_i = max_iter
         /\ Len(LL) = Cardinality(EvalIdx)
         /\ \A e \in 0..(max_iter - 1) : EpochComplete(e)
    /\ pc # "done" => plotted = << >>
    /\ pc = "plot" => it_i = max_iter

C26_Step ==
    /\ plotted' # plotted => (pc = "plot" /\ pc' = "done" /\ LL' = LL)
    /\ pc' = "done" => (pc = "plot" /\ plotted' = LL)
    /\ LL' # LL => (pc \notin {"plot", "done"} /\ pc' \notin {"plot", "done"}
                    /\ plotted = << >> /\ plotted' = << >>)
    /\ pc \in {"plot", "done"} => (LL' = LL /\ calls' = calls /\ W' = W)

C26_PlotAfterTraining == []C26_Plotted /\ [][C26_Step]_vars

\* Two epochs of evaluations have been plotted.
C26_Witness ==
    /\ pc = "done"
    /\ max_iter = 2
    /\ Len(plotted) >= 3
    /\ plotted = LL
    /\ \E k \in EvalIdx : calls[k].i = 0
    /\ \E k \in EvalIdx : calls[k].i = 1

-----------------------------------------------------------------------------
(* C27: after k >= 1 parameter-update steps every parameter differs from    *)
(* its value one step earlier by the current value of its accumulator,      *)
(* theta_k - theta_(k-1) = v_k, and theta_k = theta_0 + v_1 + ... + v_k:    *)
(* the parameter expressions and the accumulator expressions, written       *)
(* separately, stay in step.  v_n and theta_n are rebuilt from the          *)
(* gradients in the call log.                                               *)
RECURSIVE C27_v(_, _, _)
C27_v(n, p, e) ==
    IF n <= 0 THEN 0
    ELSE mu * C27_v(n - 1, p, e) - lr * TrainCalls[n].g[p][e]

RECURSIVE C27_theta(_, _, _)
C27_theta(n, p, e) ==
    IF n <= 0 THEN W_init[p][e]
    ELSE C27_theta(n - 1, p, e) + C27_v(n, p, e)

C27_InStep ==
    LET k == Len(TrainCalls)
    IN  k >= 1 =>
          \A p \in ParamNames :
             \A e \in DOMAIN W[p] :
                /\ dW[p][e] = C27_v(k, p, e)
                /\ W[p][e] - C27_theta(k - 1, p, e) = dW[p][e]
                /\ W[p][e] = W_init[p][e]
                               + SumTo([n \in 1..k |-> C27_v(n, p, e)], k)

\* Three steps have run with mu # 0 and the last moved a parameter.
C27_Witness ==
    /\ Len(TrainCalls) >= 3
    /\ mu = 2
    /\ \E p \in ParamNames : \E e \in DOMAIN W[p] :
          /\ dW[p][e] # 0
          /\ C27_v(Len(TrainCalls) - 1, p, e) # 0
          /\ dW[p][e] # -lr * TrainCalls[Len(TrainCalls)].g[p][e]

-----------------------------------------------------------------------------
(* C28: when the training loop finishes, the metrics history holds exactly  *)
(* max_iter * ceil(floor(N_train/batch_sz) / print_period) entries, none    *)
(* when N_train < batch_sz; and at every moment the history has no more     *)
(* entries than parameter-update steps have run.  For a batch size of at    *)
(* least one row.                                                           *)
C28_Ceil(a, b) == (a + b - 1) \div b

C28_HistoryLength ==
    /\ (pc \in {"plot", "done"} /\ batch_sz > 0) =>
         Len(LL) = max_iter * C28_Ceil(N \div batch_sz, print_period)
    /\ (batch_sz > 0 /\ N < batch_sz) => Len(LL) = 0
    /\ Len(LL) <= Cardinality(TrainIdx)

\* A finished run of two epochs whose epochs end between two evaluations,
\* and one that trained but left some updates without an evaluation.
C28_Witness ==
    /\ pc = "done"
    /\ max_iter = 2
    /\ print_period = 2
    /\ N \div batch_sz = 3
    /\ Len(LL) = 4
    /\ Cardinality(TrainIdx) = 6

-----------------------------------------------------------------------------
(* The training cell of the TensorFlow notebook (src/unnamed/part_001,      *)
(* lines 497-525).  The placeholders X and T have the fixed shape           *)
(* (batch_sz, ...) (lines 403-404): session.run accepts a feed of exactly   *)
(* batch_sz rows and raises on any other.  The optimizer and the network    *)
(* are library code, represented by fixed deterministic functions of the    *)
(* rows fed and of the variables.  The array the source calls prediction    *)
(* is the variable prediction_val, its loop counter k is k_test.            *)

\* Bounds of the data of this notebook.
MaxRowsTF == 8      \* rows of the loaded dataset: 1 .. MaxRowsTF
HoldoutTF == 3      \* rows held out (1000 in the notebook, scaled down)

Sign(a) == IF a > 0 THEN 1 ELSE IF a < 0 THEN -1 ELSE 0

\* cost = tf.reduce_sum(tf.nn.softmax_cross_entropy_with_logits(...)) on the
\* rows fed (line 442)
cost_tf(Xb, Yb, Wc) ==
    LET fw == Forward(Wc)
    IN  SumTo([r \in 1..Len(Xb) |->
                 SumTo([c \in 1..Len(Yb[r]) |->
                          FMul(Yb[r][c], RowCost(Xb[r], c - 1, fw))],
                       Len(Yb[r]))], Len(Xb))

\* predict_op = tf.argmax(Yish, 1) on the rows fed (line 447)
predict_op(Xb, Wc) ==
    LET fw == Forward(Wc)
    IN  [r \in 1..Len(Xb) |-> RowPrediction(Xb[r], fw)]

\* train_op = RMSPropOptimizer(...).minimize(cost) (line 444): one step of
\* the optimizer on the rows fed (library stand-in: every entry moves one
\* unit against the sign of its gradient).
train_op(Xb, Yb, Wc) ==
    [p \in ParamNames |->
       [e \in 1..Len(Wc[p]) |->
          Wc[p][e] - Sign(T_grad(p, Xb, Yb, Wc, 0)[e])]]

\* int(n_batches), with n_batches = N / batch_sz (lines 338, 504)
IntNBatchesTF == IntDiv(N, batch_sz)

\* Faulty variant of TestChunks: the count is rounded up, so the rows left
\* over are fed as one more, shorter chunk.
TestChunks_ceil == IntDiv(Len(Xtest) + batch_sz - 1, batch_sz)

\* int(len(Xtest) / batch_sz) (line 513)
TestChunks == IntDiv(Len(Xtest), batch_sz)

\* np.zeros(n)
np_zeros(n) == [r \in 1..n |-> 0]

\* s[a:b] = v for arrays: the rows of the slice take the rows of v in order.
PySetSlice(s, a, b, v) ==
    LET lo == PyBound(a, Len(s))
        hi == PyBound(b, Len(s))
    IN  [r \in 1..Len(s) |-> IF lo < r /\ r <= hi THEN v[r - lo] ELSE s[r]]

\* State after the cells before the training cell have run (lines 115-447):
\* the data is loaded, shuffled once and split, max_iter, print_period, N and
\* batch_sz are set, the graph is built.  batch_sz is at least 1 (0 raises
\* at line 338, a negative one at line 403).
InitTF ==
    /\ \E file \in { Corpus(n) : n \in 1..MaxRowsTF } :
      \E p \in Shuffles(Len(file)) :
        LET XY == get_normalized_data(Permute(file, p))
            Xn == XY[1]
            Yn == XY[2]
        IN  /\ data = file
            /\ Xtrain = PySliceTo(Xn, -HoldoutTF)
            /\ Ytrain = PySliceTo(Yn, -HoldoutTF)
            /\ Xtest = PySliceFrom(Xn, -HoldoutTF)
            /\ Ytest = PySliceFrom(Yn, -HoldoutTF)
            /\ Ytrain_ind = y2indicator(PySliceTo(Yn, -HoldoutTF))
            /\ Ytest_ind = y2indicator(PySliceFrom(Yn, -HoldoutTF))
            /\ N = Len(PySliceTo(Xn, -HoldoutTF))
    /\ X = "X" /\ Y = Undefined
    /\ max_iter \in 1..MaxIter
    /\ print_period \in 1..MaxPeriod
    /\ batch_sz \in 1..MaxBatch
    /\ lr = Undefined /\ reg = Undefined /\ mu = Undefined
    /\ W = W_init
    /\ dW = Undefined
    /\ pc = "tf_start"
    /\ LL = << >>
    /\ i = 0 /\ j = 0 /\ it_i = 0 /\ it_j = 0
    /\ Xbatch = << >> /\ Ybatch = << >>
    /\ cost_val = Undefined
    /\ prediction_val = << >> /\ err = [wrong |-> 0, of |-> 0]
    /\ out = << >> /\ plotted = << >>
    /\ calls = << >>
    /\ test_cost = 0 /\ k_test = 0 /\ it_k = 0

fixed_tf == << data_vars, hyper_vars, Xtrain, Ytrain_ind, dW, cost_val >>

\* lines 497-503: LL = [], the variables are initialised, the epoch loop's
\* range iterator
StartTF ==
    /\ pc = "tf_start"
    /\ LL' = << >>
    /\ W' = W_init
    /\ it_i' = 0
    /\ pc' = "tf_for_i"
    /\ UNCHANGED << fixed_tf, i, j, it_j, Xbatch, Ybatch, test_cost,
                    prediction_val, err, k_test, it_k, out, plotted, calls >>

\* Faulty variant of EpochTF: the training set is reshuffled at the start of
\* every epoch.
EpochTF_shuffling ==
    /\ pc = "tf_for_i"
    /\ it_i < max_iter
    /\ i' = it_i
    /\ it_i' = it_i + 1
    /\ it_j' = 0
    /\ \E p \in Shuffles(Len(Xtrain)) :
         LET s == shuffle(Xtrain, Ytrain_ind, p)
         IN  Xtrain' = s[1] /\ Ytrain_ind' = s[2]
    /\ pc' = "tf_for_j"
    /\ UNCHANGED << data_vars, hyper_vars, dW, cost_val, W, LL, j, Xbatch,
                    Ybatch, test_cost, prediction_val, err, k_test, it_k, out,
                    plotted, calls >>

\* lines 503-504: next epoch; the batch loop's range iterator.  The epoch
\* does not reshuffle.
EpochTF ==
    /\ pc = "tf_for_i"
    /\ it_i < max_iter
    /\ i' = it_i
    /\ it_i' = it_i + 1
    /\ it_j' = 0
    /\ pc' = "tf_for_j"
    /\ UNCHANGED << fixed_tf, W, LL, j, Xbatch, Ybatch, test_cost,
                    prediction_val, err, k_test, it_k, out, plotted, calls >>

\* line 503: the epoch loop is exhausted
LoopDoneTF ==
    /\ pc = "tf_for_i"
    /\ it_i >= max_iter
    /\ pc' = "tf_plot"
    /\ UNCHANGED << fixed_tf, W, LL, i, j, it_i, it_j, Xbatch, Ybatch,
                    test_cost, prediction_val, err, k_test, it_k, out,
                    plotted, calls >>

\* lines 504-506: next batch index; slice the batch
SliceTF ==
    /\ pc = "tf_for_j"
    /\ it_j < IntNBatchesTF
    /\ j' = it_j
    /\ it_j' = it_j + 1
    /\ Xbatch' = PySlice(Xtrain, it_j * batch_sz, it_j * batch_sz + batch_sz)
    /\ Ybatch' = PySlice(Ytrain_ind, it_j * batch_sz, it_j * batch_sz + batch_sz)
    /\ pc' = "tf_if_len"
    /\ UNCHANGED << fixed_tf, W, LL, i, it_i, test_cost, prediction_val, err,
                    k_test, it_k, out, plotted, calls >>

\* line 504: the batch loop is exhausted
EpochEndTF ==
    /\ pc = "tf_for_j"
    /\ it_j >= IntNBatchesTF
    /\ pc' = "tf_for_i"
    /\ UNCHANGED << fixed_tf, W, LL, i, j, it_i, it_j, Xbatch, Ybatch,
                    test_cost, prediction_val, err, k_test, it_k, out,
                    plotted, calls >>

\* line 508: if len(Xbatch) == batch_sz; otherwise the batch is passed over
BatchGuardTF ==
    /\ pc = "tf_if_len"
    /\ pc' = IF Len(Xbatch) = batch_sz THEN "tf_train" ELSE "tf_for_j"
    /\ UNCHANGED << fixed_tf, W, LL, i, j, it_i, it_j, Xbatch, Ybatch,
                    test_cost, prediction_val, err, k_test, it_k, out,
                    plotted, calls >>

\* line 509: session.run(train_op, feed_dict={X: Xbatch, T: Ybatch})
TrainTF ==
    /\ pc = "tf_train"
    /\ W' = train_op(Xbatch, Ybatch, W)
    /\ calls' = Append(calls, [fn |-> "train", i |-> i, j |-> j,
                               X |-> Xbatch, Y |-> Ybatch])
    /\ pc' = "tf_if_period"
    /\ UNCHANGED << fixed_tf, LL, i, j, it_i, it_j, Xbatch, Ybatch,
                    test_cost, prediction_val, err, k_test, it_k, out,
                    plotted >>

\* lines 510-513: the evaluation is due; test_cost = 0, prediction = zeros,
\* the chunk loop's range iterator
BeginEvaluateTF ==
    /\ pc = "tf_if_period"
    /\ j % print_period = 0
    /\ test_cost' = 0
    /\ prediction_val' = np_zeros(Len(Xtest))
    /\ it_k' = 0
    /\ pc' = "tf_for_k"
    /\ UNCHANGED << fixed_tf, W, LL, i, j, it_i, it_j, Xbatch, Ybatch, err,
                    k_test, out, plotted, calls >>

\* line 510: the evaluation is not due
SkipEvaluateTF ==
    /\ pc = "tf_if_period"
    /\ j % print_period # 0
    /\ pc' = "tf_for_j"
    /\ UNCHANGED << fixed_tf, W, LL, i, j, it_i, it_j, Xbatch, Ybatch,
                    test_cost, prediction_val, err, k_test, it_k, out,
                    plotted, calls >>

\* lines 513-518: next chunk of the holdout set; its cost is added and its
\* predictions are written at the chunk's positions
ChunkTF ==
    /\ pc = "tf_for_k"
    /\ it_k < TestChunks
    /\ k_test' = it_k
    /\ it_k' = it_k + 1
    /\ LET Xtestbatch == PySlice(Xtest, it_k * batch_sz, it_k * batch_sz + batch_sz)
           Ytestbatch == PySlice(Ytest_ind, it_k * batch_sz,
                                 it_k * batch_sz + batch_sz)
       IN  /\ test_cost' = test_cost + cost_tf(Xtestbatch, Ytestbatch, W)
           /\ prediction_val' =
                 PySetSlice(prediction_val, it_k * batch_sz,
                            it_k * batch_sz + batch_sz,
                            predict_op(Xtestbatch, W))
           /\ calls' = calls \o
                 << [fn |-> "cost", i |-> i, j |-> j, k |-> it_k,
                     X |-> Xtestbatch, Y |-> Ytestbatch],
                    [fn |-> "predict_op", i |-> i, j |-> j, k |-> it_k,
                     X |-> Xtestbatch] >>
    /\ pc' = "tf_for_k"
    /\ UNCHANGED << fixed_tf, W, LL, i, j, it_i, it_j, Xbatch, Ybatch, err,
                    out, plotted >>

\* Faulty variant of FinishEvaluateTF: the error rate is taken over the rows
\* that were scored only.
FinishEvaluateTF_scored_only ==
    /\ pc = "tf_for_k"
    /\ it_k >= TestChunks
    /\ err' = error_rate(SubSeq(prediction_val, 1, TestChunks * batch_sz),
                         SubSeq(Ytest, 1, TestChunks * batch_sz))
    /\ out' = IF j = 0 THEN Append(out, << i, j, test_cost, err' >>) ELSE out
    /\ LL' = Append(LL, test_cost)
    /\ pc' = "tf_for_j"
    /\ UNCHANGED << fixed_tf, W, i, j, it_i, it_j, Xbatch, Ybatch, test_cost,
                    prediction_val, k_test, it_k, plotted, calls >>

\* lines 513 and 519-522: the chunk loop is exhausted; the error rate over
\* the whole holdout set, the printed line, the history entry
FinishEvaluateTF ==
    /\ pc = "tf_for_k"
    /\ it_k >= TestChunks
    /\ err' = error_rate(prediction_val, Ytest)
    /\ out' = IF j = 0 THEN Append(out, << i, j, test_cost, err' >>) ELSE out
    /\ LL' = Append(LL, test_cost)
    /\ pc' = "tf_for_j"
    /\ UNCHANGED << fixed_tf, W, i, j, it_i, it_j, Xbatch, Ybatch, test_cost,
                    prediction_val, k_test, it_k, plotted, calls >>

\* lines 523-525: print the elapsed time, plot the history
PlotTF ==
    /\ pc = "tf_plot"
    /\ plotted' = LL
    /\ pc' = "tf_done"
    /\ UNCHANGED << fixed_tf, W, LL, i, j, it_i, it_j, Xbatch, Ybatch,
                    test_cost, prediction_val, err, k_test, it_k, out, calls >>

NextTF ==
    \/ StartTF
    \/ EpochTF
    \/ LoopDoneTF
    \/ SliceTF
    \/ EpochEndTF
    \/ BatchGuardTF
    \/ TrainTF
    \/ BeginEvaluateTF
    \/ SkipEvaluateTF
    \/ ChunkTF
    \/ FinishEvaluateTF
    \/ PlotTF

SpecTF == InitTF /\ [][NextTF]_vars

-----------------------------------------------------------------------------
(* Reading the call log of the TensorFlow cell *)

\* The session.run calls that feed the placeholders.
FeedIdx == { n \in 1..Len(calls) : calls[n].fn \in {"train", "cost", "predict_op"} }

\* The rows of the training set beyond the last whole batch.
RemainderTF == { Xtrain[r] : r \in (IntNBatchesTF * batch_sz + 1)..Len(Xtrain) }

-----------------------------------------------------------------------------
(* C23: in the TensorFlow cell a sliced batch whose length differs from     *)
(* batch_sz triggers no training step, no metrics evaluation and no history *)
(* append, and every feed of the placeholders has exactly batch_sz rows.    *)
C23_ExactFeeds ==
    /\ \A n \in FeedIdx : Len(calls[n].X) = batch_sz
    /\ \A n \in TrainIdx : Len(calls[n].Y) = batch_sz
    /\ pc \in {"tf_train", "tf_if_period", "tf_for_k"} =>
         (Len(Xbatch) = batch_sz /\ Len(Ybatch) = batch_sz)

C23_GuardStep ==
    /\ (pc = "tf_if_len" /\ Len(Xbatch) # batch_sz) =>
          (pc' = "tf_for_j" /\ UNCHANGED << W, LL, calls, test_cost, err >>)
    /\ pc' = "tf_train" => (pc = "tf_if_len" /\ Len(Xbatch) = batch_sz)
    /\ (calls' # calls \/ LL' # LL \/ W' # W) =>
          (pc # "tf_start" => Len(Xbatch) = batch_sz)

-----------------------------------------------------------------------------
(* C29: the TensorFlow loop does not reshuffle at epoch start, so batch j   *)
(* holds the same rows in the same order in every epoch; when N_train is    *)
(* not a multiple of batch_sz the same trailing N_train mod batch_sz rows   *)
(* are left out in every epoch and are never trained on in the whole run;   *)
(* and the guard len(Xbatch) == batch_sz is true for every j in             *)
(* 0 .. floor(N_train/batch_sz) - 1.                                        *)
C29_TrainOf(e, b) == { n \in TrainIdx : calls[n].i = e /\ calls[n].j = b }

\* Epoch e of the TensorFlow loop has run all its batches.
C29_EpochComplete(e) ==
    \/ e < it_i - 1
    \/ /\ e = it_i - 1
       /\ \/ pc \in {"tf_for_i", "tf_plot", "tf_done"}
          \/ pc = "tf_for_j" /\ it_j >= IntNBatchesTF

C29_SameBatches ==
    /\ \A n \in TrainIdx :
         /\ calls[n].j \in 0..(N \div batch_sz) - 1
         /\ calls[n].X = SubSeq(Xtrain, calls[n].j * batch_sz + 1,
                                calls[n].j * batch_sz + batch_sz)
         /\ calls[n].Y = SubSeq(Ytrain_ind, calls[n].j * batch_sz + 1,
                                calls[n].j * batch_sz + batch_sz)
         /\ Range(calls[n].X) \cap RemainderTF = {}
         /\ \A m \in TrainIdx :
              calls[m].j = calls[n].j =>
                 (calls[m].X = calls[n].X /\ calls[m].Y = calls[n].Y)
    /\ Cardinality(RemainderTF) = N % batch_sz
    /\ Len(Xtrain) = N
    /\ pc = "tf_if_len" => Len(Xbatch) = batch_sz
    /\ \A e \in 0..(it_i - 1) :
         C29_EpochComplete(e) =>
            \A b \in 0..(N \div batch_sz) - 1 :
               Cardinality(C29_TrainOf(e, b)) = 1

C29_Fixed == Xtrain' = Xtrain /\ Ytrain_ind' = Ytrain_ind

C29_NoReshuffle == []C29_SameBatches /\ [][C29_Fixed]_vars

\* Two epochs have run two batches each and left the same row out.
C29_Witness ==
    /\ pc = "tf_done"
    /\ max_iter = 2
    /\ N \div batch_sz >= 2
    /\ N % batch_sz # 0
    /\ C29_TrainOf(0, 1) # {}
    /\ C29_TrainOf(1, 1) # {}

-----------------------------------------------------------------------------
(* C30: the TensorFlow evaluation scores the holdout set in                 *)
(* floor(H/batch_sz) chunks of batch_sz rows.  Each holdout row at a        *)
(* position up to floor(H/batch_sz)*batch_sz is fed once for the cost and   *)
(* once for the prediction, its cost is in the summed test cost and its     *)
(* prediction is written at its position; the rows beyond contribute        *)
(* nothing to the cost, keep the initial prediction 0, and are counted in   *)
(* the error rate against their true labels.                                *)
C30_Scored == TestChunks * batch_sz

C30_RowCost(r) == cost_tf(<< Xtest[r] >>, << Ytest_ind[r] >>, W)
C30_RowPrediction(r) == RowPrediction(Xtest[r], Forward(W))

\* The chunk feeds of the evaluation in progress: those after the last
\* training feed.
C30_ChunkFeeds(fn) ==
    { n \in 1..Len(calls) :
        /\ calls[n].fn = fn
        /\ \A m \in TrainIdx : m < n }

C30_FeedsOf(fn, r) ==
    Cardinality({ n \in C30_ChunkFeeds(fn) :
                    \E q \in 1..Len(calls[n].X) :
                       /\ calls[n].X[q] = Xtest[r]
                       /\ calls[n].k * batch_sz + q = r })

\* During an evaluation, after it_k chunks.
C30_Progress ==
    pc = "tf_for_k" =>
      /\ Len(prediction_val) = Len(Xtest)
      /\ it_k <= TestChunks
      /\ C30_Scored <= Len(Xtest) /\ Len(Xtest) - C30_Scored < batch_sz
      /\ test_cost = SumTo([r \in 1..(it_k * batch_sz) |-> C30_RowCost(r)],
                           it_k * batch_sz)
      /\ \A r \in 1..Len(Xtest) :
           IF r <= it_k * batch_sz
           THEN /\ prediction_val[r] = C30_RowPrediction(r)
                /\ C30_FeedsOf("cost", r) = 1
                /\ C30_FeedsOf("predict_op", r) = 1
           ELSE /\ prediction_val[r] = 0
                /\ C30_FeedsOf("cost", r) = 0
                /\ C30_FeedsOf("predict_op", r) = 0

\* The step that ends an evaluation.
C30_Finish ==
    (pc = "tf_for_k" /\ pc' # "tf_for_k") =>
      /\ it_k = TestChunks
      /\ LL' = Append(LL, SumTo([r \in 1..C30_Scored |-> C30_RowCost(r)],
                                C30_Scored))
      /\ err'.of = Len(Xtest)
      /\ err'.wrong =
           Cardinality({ r \in 1..Len(Xtest) :
                           (IF r <= C30_Scored THEN C30_RowPrediction(r) ELSE 0)
                             # Ytest[r] })
      /\ prediction_val' = prediction_val

C30_ChunkedEvaluation == []C30_Progress /\ [][C30_Finish]_vars

\* An evaluation has ended that scored one chunk of two rows and left the
\* third holdout row, of a class other than 0, unscored and counted wrong.
C30_Witness ==
    /\ pc = "tf_for_j"
    /\ LL # << >>
    /\ batch_sz = 2
    /\ Len(Xtest) = 3
    /\ TestChunks = 1
    /\ prediction_val[3] = 0
    /\ Ytest[3] # 0
    /\ err.of = 3
    /\ err.wrong >= 1
    /\ prediction_val[1] # 0

====
